---- MODULE Spec2Model ----
EXTENDS Integers, Sequences, FiniteSets, TLC

(***************************************************************************)
(* ChubaoFS: MetaPartition state machine (metanode) and ExtentStore        *)
(* (storage).  The MetaPartition part models the raft apply path, the      *)
(* snapshot path, leader change, inode-id allocation and the free-list     *)
(* workers; the ExtentStore part models extent-id allocation, create,      *)
(* write, read, mark-delete, flush-delete and re-open of a store.          *)
(***************************************************************************)

\* ------------------------------------------------------------------------
\* Bounds of the model
\* ------------------------------------------------------------------------
MaxLog == 2        \* entries the replicated log may hold
MaxKey == 2        \* ExtentKeys are 1..MaxKey
MaxSnap == 1       \* snapshots raft installs with success in a run

Replica == {1, 2}
Keys == 1..MaxKey
Names == {"a"}

\* MetaPartitionConfig.Start / .End of the modelled partition
PartitionStart == 0
PartitionEnd == 1

\* inode ids carried by commands: the ids of the range and one beyond it
InodeIds == (PartitionStart + 1)..(PartitionEnd + 1)

\* proto.Mode*
ModeDir == "ModeDir"
ModeRegular == "ModeRegular"
Modes == {ModeDir, ModeRegular}

\* proto.Op* result codes
OpOk == "OpOk"
OpExistErr == "OpExistErr"
OpNotExistErr == "OpNotExistErr"
OpArgMismatchErr == "OpArgMismatchErr"
OpErr == "OpErr"

\* partition_free_list.go
BatchCounts == 100

VARIABLES
    raftLog,        \* the replicated log: sequence of commands (raft collaborator)
    raftApplied,    \* per replica: index of the last entry raft handed to the FSM
    raftLeader,     \* the replica raft reports as leader (0: none)
    mp,             \* per replica: the metaPartition struct
    storeTick,      \* per replica: store-snapshot ticker running
    initInodeQ,     \* per replica: root inodes handed to "go mp.initInode(ino)"
    snapCount,      \* snapshots installed so far
    origin,         \* per replica: "log" | "alloc" | "snap" (how its cursor was reached)
    accepted,       \* ExtentKeys whose MarkDelete a DataPartition answered with OpOk
    batchKeys,      \* ExtentKeys of the inode records placed in a removal batch
    evictedKeys,    \* ExtentKeys of inodes the leader evicted, not yet issued since
    failedKeys,     \* ExtentKeys whose last MarkDelete failed, awaiting the retry
    attemptFlip     \* per ExtentKey: flips each time its MarkDelete is issued

\* what the runs about removal batches record, and what the runs about the
\* issue of MarkDelete requests record
batchGhosts == <<accepted, batchKeys>>
issueGhosts == <<evictedKeys, failedKeys, attemptFlip>>

metaVars == <<raftLog, raftApplied, raftLeader, mp, storeTick, initInodeQ, snapCount, origin,
              batchGhosts, issueGhosts>>

\* ------------------------------------------------------------------------
\* Helpers
\* ------------------------------------------------------------------------
Max(a, b) == IF a > b THEN a ELSE b

Range(s) == {s[i] : i \in DOMAIN s}

EmptyTree == [k \in {} |-> 0]

TreeDelete(tree, k) == [x \in (DOMAIN tree) \ {k} |-> tree[x]]

TreePut(tree, k, v) == [x \in (DOMAIN tree) \cup {k} |-> IF x = k THEN v ELSE tree[x]]

SetMin(S) == CHOOSE x \in S : \A y \in S : x <= y

RECURSIVE Ascending(_)
Ascending(S) == IF S = {} THEN <<>> ELSE <<SetMin(S)>> \o Ascending(S \ {SetMin(S)})

RECURSIVE AnyOrder(_)
AnyOrder(S) == IF S = {} THEN <<>>
               ELSE LET x == CHOOSE y \in S : TRUE IN <<x>> \o AnyOrder(S \ {x})

\* ------------------------------------------------------------------------
\* Inode and free list
\* ------------------------------------------------------------------------
NewInode(ino, t) ==
    [Inode |-> ino, Type |-> t, NLink |-> IF t = ModeDir THEN 2 ELSE 1,
     MarkDelete |-> 0, Extents |-> <<>>, Generation |-> 1, ModifyTime |-> 0]

\* A free-list element is a pointer to an Inode object.  ref = "tree": the
\* object is the one stored in the inode tree under that id (its fields are
\* read through the tree); ref = "copy": an object that is not (or no
\* longer) in the tree, with the fields it had when it left the tree.
TreeRef(ino) == [Inode |-> ino.Inode, Type |-> ino.Type, Extents |-> <<>>, ref |-> "tree"]
CopyRef(ino) == [Inode |-> ino.Inode, Type |-> ino.Type, Extents |-> ino.Extents, ref |-> "copy"]

freeListPush(fl, e) == Append(fl, e)

\* the object a free-list element points to
Deref(m, e) == IF e.ref = "tree" THEN m.inodeTree[e.Inode] ELSE e

\* the tree object of id ino leaves the tree: pointers to it keep its fields
Detach(m, ino) ==
    [i \in DOMAIN m.freeList |->
        IF m.freeList[i].ref = "tree" /\ m.freeList[i].Inode = ino
        THEN CopyRef(m.inodeTree[ino]) ELSE m.freeList[i]]

inodeTreeDelete(m, ino) ==
    IF ino \in DOMAIN m.inodeTree
    THEN [m EXCEPT !.freeList = Detach(m, ino), !.inodeTree = TreeDelete(m.inodeTree, ino)]
    ELSE m

\* ------------------------------------------------------------------------
\* FSM operations on one metaPartition m
\* ------------------------------------------------------------------------
createInode(m, ino) ==
    IF ino.Inode \in DOMAIN m.inodeTree
    THEN [mp |-> m, status |-> OpExistErr]
    ELSE [mp |-> [m EXCEPT !.inodeTree = TreePut(m.inodeTree, ino.Inode, ino)], status |-> OpOk]

createLinkInode(m, ino) ==
    IF ino \notin DOMAIN m.inodeTree THEN [mp |-> m, status |-> OpNotExistErr]
    ELSE LET i == m.inodeTree[ino] IN
         IF i.Type = ModeDir THEN [mp |-> m, status |-> OpArgMismatchErr]
         ELSE IF i.MarkDelete = 1 THEN [mp |-> m, status |-> OpNotExistErr]
         ELSE [mp |-> [m EXCEPT !.inodeTree[ino].NLink = i.NLink + 1], status |-> OpOk]

\* a deleteInode that decrements NLink whatever its value
deleteInodeBelowZero(m, ino) ==
    IF ino \notin DOMAIN m.inodeTree THEN [mp |-> m, status |-> OpNotExistErr]
    ELSE LET inode == m.inodeTree[ino] IN
         IF inode.Type = ModeRegular
         THEN LET n == inode.NLink - 1
                  m1 == [m EXCEPT !.inodeTree[ino].NLink = n]
              IN  [mp |-> IF n = 0
                          THEN [m1 EXCEPT !.freeList = freeListPush(m1.freeList, TreeRef(inode))]
                          ELSE m1,
                   status |-> OpOk]
         ELSE [mp |-> inodeTreeDelete(m, ino), status |-> OpOk]

deleteInode(m, ino) ==
    IF ino \notin DOMAIN m.inodeTree THEN [mp |-> m, status |-> OpNotExistErr]
    ELSE LET inode == m.inodeTree[ino] IN
         IF inode.Type = ModeRegular
         THEN LET n == IF inode.NLink > 0 THEN inode.NLink - 1 ELSE inode.NLink
                  m1 == [m EXCEPT !.inodeTree[ino].NLink = n]
              IN  [mp |-> IF n = 0
                          THEN [m1 EXCEPT !.freeList = freeListPush(m1.freeList, TreeRef(inode))]
                          ELSE m1,
                   status |-> OpOk]
         ELSE [mp |-> inodeTreeDelete(m, ino), status |-> OpOk]

internalDeleteInode(m, ino) == inodeTreeDelete(m, ino)

RECURSIVE internalDeleteLoop(_, _)
internalDeleteLoop(m, val) ==
    IF val = <<>> THEN m
    ELSE internalDeleteLoop(internalDeleteInode(m, Head(val)), Tail(val))

\* an internalDelete that reports an inode id it does not find
internalDeleteStrict(m, val) ==
    IF \E i \in DOMAIN val : val[i] \notin DOMAIN m.inodeTree
    THEN [mp |-> m, err |-> "not exist"]
    ELSE [mp |-> internalDeleteLoop(m, val), err |-> "nil"]

\* val: the decoded sequence of 8-byte inode ids; binary.Read ends the loop
\* with io.EOF, which is turned into a nil error
internalDelete(m, val) == [mp |-> internalDeleteLoop(m, val), err |-> "nil"]

\* an appendExtents that keeps the inode's own modification time
appendExtentsKeepsMtime(m, ino) ==
    IF ino.Inode \notin DOMAIN m.inodeTree THEN [mp |-> m, status |-> OpNotExistErr]
    ELSE LET i == m.inodeTree[ino.Inode] IN
         IF i.MarkDelete = 1 THEN [mp |-> m, status |-> OpNotExistErr]
         ELSE [mp |-> [m EXCEPT !.inodeTree[ino.Inode].Extents = i.Extents \o ino.Extents,
                                !.inodeTree[ino.Inode].Generation = i.Generation + 1],
               status |-> OpOk]

\* ino: the inode decoded from the command, carrying the ExtentKeys to append
\* and the modification time
appendExtents(m, ino) ==
    IF ino.Inode \notin DOMAIN m.inodeTree THEN [mp |-> m, status |-> OpNotExistErr]
    ELSE LET i == m.inodeTree[ino.Inode] IN
         IF i.MarkDelete = 1 THEN [mp |-> m, status |-> OpNotExistErr]
         ELSE [mp |-> [m EXCEPT !.inodeTree[ino.Inode].Extents = i.Extents \o ino.Extents,
                                !.inodeTree[ino.Inode].ModifyTime = ino.ModifyTime,
                                !.inodeTree[ino.Inode].Generation = i.Generation + 1],
               status |-> OpOk]

\* extentsTruncate: the inode loses its extents to a new mark-deleted inode
\* whose id is decoded from LinkTarget; that inode is inserted unless the id
\* is taken (ReplaceOrInsert(markIno, false)) and pushed on the free list
extentsTruncate(m, ino) ==
    IF ino.Inode \notin DOMAIN m.inodeTree THEN [mp |-> m, status |-> OpNotExistErr]
    ELSE LET i == m.inodeTree[ino.Inode] IN
         IF ino.Generation # i.Generation THEN [mp |-> m, status |-> OpErr]
         ELSE IF i.Type = ModeDir THEN [mp |-> m, status |-> OpArgMismatchErr]
         ELSE IF i.MarkDelete = 1 THEN [mp |-> m, status |-> OpNotExistErr]
         ELSE LET markIno == [NewInode(ino.LinkTarget, i.Type) EXCEPT
                                 !.MarkDelete = 1, !.Extents = i.Extents]
                  m1 == [m EXCEPT !.inodeTree[ino.Inode].Extents = <<>>,
                                  !.inodeTree[ino.Inode].ModifyTime = ino.ModifyTime,
                                  !.inodeTree[ino.Inode].Generation = i.Generation + 1]
              IN  [mp |-> IF markIno.Inode \in DOMAIN m1.inodeTree
                          THEN [m1 EXCEPT !.freeList = freeListPush(@, CopyRef(markIno))]
                          ELSE [m1 EXCEPT
                                   !.inodeTree = TreePut(@, markIno.Inode, markIno),
                                   !.freeList = freeListPush(@, TreeRef(markIno))],
                   status |-> OpOk]

evictInode(m, ino) ==
    IF ino \notin DOMAIN m.inodeTree THEN [mp |-> m, status |-> OpNotExistErr]
    ELSE LET i == m.inodeTree[ino] IN
         IF i.Type = ModeDir
         THEN [mp |-> IF i.NLink < 2 THEN inodeTreeDelete(m, ino) ELSE m, status |-> OpOk]
         ELSE IF i.MarkDelete = 1 THEN [mp |-> m, status |-> OpOk]
         ELSE IF i.NLink < 1
              THEN [mp |-> [m EXCEPT !.inodeTree[ino].MarkDelete = 1,
                                     !.freeList = freeListPush(m.freeList, TreeRef(i))],
                    status |-> OpOk]
              ELSE [mp |-> m, status |-> OpOk]

DentryKey(d) == <<d.ParentId, d.Name>>

createDentry(m, dentry) ==
    IF DentryKey(dentry) \notin DOMAIN m.dentryTree
    THEN [mp |-> [m EXCEPT !.dentryTree = TreePut(m.dentryTree, DentryKey(dentry), dentry)],
          status |-> OpOk]
    ELSE LET d == m.dentryTree[DentryKey(dentry)] IN
         IF dentry.Type # d.Type THEN [mp |-> m, status |-> OpArgMismatchErr]
         ELSE IF dentry.Inode = d.Inode THEN [mp |-> m, status |-> OpOk]
         ELSE [mp |-> m, status |-> OpExistErr]

deleteDentry(m, dentry) ==
    IF DentryKey(dentry) \notin DOMAIN m.dentryTree
    THEN [mp |-> m, status |-> OpNotExistErr]
    ELSE [mp |-> [m EXCEPT !.dentryTree = TreeDelete(m.dentryTree, DentryKey(dentry))],
          status |-> OpOk]

\* an updateDentry that exchanges the inode numbers of the updated dentry and
\* of the dentry that refers to the requested inode
updateDentrySwapsNames(m, dentry) ==
    IF DentryKey(dentry) \notin DOMAIN m.dentryTree
    THEN [mp |-> m, status |-> OpNotExistErr, msg |-> dentry]
    ELSE LET d == m.dentryTree[DentryKey(dentry)] IN
         [mp |-> [m EXCEPT !.dentryTree =
                     [k \in DOMAIN @ |->
                         IF k = DentryKey(dentry) THEN [@[k] EXCEPT !.Inode = dentry.Inode]
                         ELSE IF @[k].Inode = dentry.Inode THEN [@[k] EXCEPT !.Inode = d.Inode]
                         ELSE @[k]]],
          status |-> OpOk,
          msg |-> [dentry EXCEPT !.Inode = d.Inode]]

\* an updateDentry that inserts the dentry it does not find
updateDentryUpserts(m, dentry) ==
    IF DentryKey(dentry) \notin DOMAIN m.dentryTree
    THEN [mp |-> [m EXCEPT !.dentryTree = TreePut(@, DentryKey(dentry), dentry)],
          status |-> OpOk, msg |-> dentry]
    ELSE LET d == m.dentryTree[DentryKey(dentry)] IN
         [mp |-> [m EXCEPT !.dentryTree[DentryKey(dentry)].Inode = dentry.Inode],
          status |-> OpOk,
          msg |-> [dentry EXCEPT !.Inode = d.Inode]]

\* updateDentry: the inode numbers of the tree's dentry and of the request
\* are exchanged; msg is the request after the exchange
updateDentry(m, dentry) ==
    IF DentryKey(dentry) \notin DOMAIN m.dentryTree
    THEN [mp |-> m, status |-> OpNotExistErr, msg |-> dentry]
    ELSE LET d == m.dentryTree[DentryKey(dentry)] IN
         [mp |-> [m EXCEPT !.dentryTree[DentryKey(dentry)].Inode = dentry.Inode],
          status |-> OpOk,
          msg |-> [dentry EXCEPT !.Inode = d.Inode]]


\* ------------------------------------------------------------------------
\* Commands of the replicated log (MetaItem: Op + marshalled value)
\* ------------------------------------------------------------------------
Cmd(op, ino, t, key, ids, valid) ==
    [Op |-> op, Inode |-> ino, Type |-> t, Extents |-> IF key = 0 THEN <<>> ELSE <<key>>,
     Ids |-> ids, Valid |-> valid, Name |-> "a", End |-> 0, Generation |-> 1,
     LinkTarget |-> 0, ModifyTime |-> 0]

CmdCreateInode(ino, t) == Cmd("opCreateInode", ino, t, 0, <<>>, TRUE)
CmdDeleteInode(ino) == Cmd("opDeleteInode", ino, ModeRegular, 0, <<>>, TRUE)
CmdCreateLinkInode(ino) == Cmd("opFSMCreateLinkInode", ino, ModeRegular, 0, <<>>, TRUE)
CmdEvictInode(ino) == Cmd("opFSMEvictInode", ino, ModeRegular, 0, <<>>, TRUE)
CmdExtentsAdd(ino, key) == Cmd("opExtentsAdd", ino, ModeRegular, key, <<>>, TRUE)
CmdCreateDentry(ino, t) == Cmd("opCreateDentry", ino, t, 0, <<>>, TRUE)
CmdDeleteDentry == Cmd("opDeleteDentry", 0, ModeRegular, 0, <<>>, TRUE)
CmdInternalDelete(ids) == Cmd("opFSMInternalDeleteInode", 0, ModeRegular, 0, ids, TRUE)
\* a command whose bytes do not decode (msg.UnmarshalJson fails)
CmdBad == Cmd("bad", 0, ModeRegular, 0, <<>>, FALSE)
\* a raft configuration change; Valid: its context decodes and is applied
CmdConfChange(valid) == Cmd("confChange", 0, ModeRegular, 0, <<>>, valid)

\* a dentry command on the name `name` of the root directory
CmdDentry(op, name, ino, t) == [Cmd(op, ino, t, 0, <<>>, TRUE) EXCEPT !.Name = name]
CmdUpdateDentry(name, ino) == CmdDentry("opUpdateDentry", name, ino, ModeRegular)

\* the range update of UpdatePartition: the new upper bound of the inode range
CmdUpdatePartition(end) ==
    [Cmd("opUpdatePartition", 0, ModeRegular, 0, <<>>, TRUE) EXCEPT !.End = end]

\* a truncate of inode ino: the Generation the client saw and, in LinkTarget,
\* the 8 bytes of the id under which the cut-off extents are parked
CmdExtentTruncate(ino, gen, target) ==
    [Cmd("opFSMExtentTruncate", ino, ModeRegular, 0, <<>>, TRUE)
        EXCEPT !.Generation = gen, !.LinkTarget = target]

\* an append of the ExtentKeys exts to inode ino at time mtime
CmdAppendExtents(ino, exts, mtime) ==
    [Cmd("opExtentsAdd", ino, ModeRegular, 0, <<>>, TRUE)
        EXCEPT !.Extents = exts, !.ModifyTime = mtime]

\* the inode decoded from an opExtentsAdd or opFSMExtentTruncate command
InodeOf(cmd) ==
    [Inode |-> cmd.Inode, Extents |-> cmd.Extents, ModifyTime |-> cmd.ModifyTime,
     Generation |-> cmd.Generation, LinkTarget |-> cmd.LinkTarget]

\* dentries of the model live in the root directory
DentryOf(cmd) == [ParentId |-> 1, Name |-> cmd.Name, Inode |-> cmd.Inode, Type |-> cmd.Type]

\* updatePartition(end): the range of the partition now ends at end
updatePartition(m, end) == [mp |-> [m EXCEPT !.End = end], status |-> OpOk]

uploadApplyID(m, applyId) == [m EXCEPT !.applyID = applyId]

\* Apply(command, index): the deferred uploadApplyID runs on every return
Apply(m, cmd, index) ==
    LET r == CASE cmd.Op = "bad" -> [mp |-> m, err |-> "decode"]
               [] cmd.Op = "opCreateInode" ->
                    LET m1 == IF m.Cursor < cmd.Inode THEN [m EXCEPT !.Cursor = cmd.Inode] ELSE m
                    IN  [mp |-> createInode(m1, NewInode(cmd.Inode, cmd.Type)).mp, err |-> "nil"]
               [] cmd.Op = "opDeleteInode" -> [mp |-> deleteInode(m, cmd.Inode).mp, err |-> "nil"]
               [] cmd.Op = "opFSMExtentTruncate" ->
                    [mp |-> extentsTruncate(m, InodeOf(cmd)).mp, err |-> "nil"]
               [] cmd.Op = "opFSMCreateLinkInode" ->
                    [mp |-> createLinkInode(m, cmd.Inode).mp, err |-> "nil"]
               [] cmd.Op = "opFSMEvictInode" -> [mp |-> evictInode(m, cmd.Inode).mp, err |-> "nil"]
               [] cmd.Op = "opCreateDentry" -> [mp |-> createDentry(m, DentryOf(cmd)).mp, err |-> "nil"]
               [] cmd.Op = "opDeleteDentry" -> [mp |-> deleteDentry(m, DentryOf(cmd)).mp, err |-> "nil"]
               [] cmd.Op = "opUpdateDentry" -> [mp |-> updateDentry(m, DentryOf(cmd)).mp, err |-> "nil"]
               [] cmd.Op = "opUpdatePartition" ->
                    [mp |-> updatePartition(m, cmd.End).mp, err |-> "nil"]
               [] cmd.Op = "opExtentsAdd" ->
                    [mp |-> appendExtents(m, InodeOf(cmd)).mp, err |-> "nil"]
               [] cmd.Op = "opFSMInternalDeleteInode" -> internalDelete(m, cmd.Ids)
               [] OTHER -> [mp |-> m, err |-> "nil"]
    IN  [mp |-> uploadApplyID(r.mp, index), err |-> r.err]

\* ApplyMemberChange: apply_id is uploaded only when no error occurred
ApplyMemberChange(m, cmd, index) ==
    IF cmd.Valid THEN [mp |-> uploadApplyID(m, index), err |-> "nil"]
    ELSE [mp |-> m, err |-> "decode"]

\* ------------------------------------------------------------------------
\* Snapshot / ApplySnapshot
\* ------------------------------------------------------------------------
\* the item stream of NewMetaItemIterator: apply id first, then the inodes
\* and the dentries in ascending key order
Snapshot(m) ==
    <<[Op |-> "applyID", V |-> m.applyID]>>
    \o [i \in 1..Cardinality(DOMAIN m.inodeTree) |->
          [Op |-> "opCreateInode", V |-> m.inodeTree[Ascending(DOMAIN m.inodeTree)[i]]]]
    \o [i \in 1..Cardinality(DOMAIN m.dentryTree) |->
          [Op |-> "opCreateDentry", V |-> m.dentryTree[AnyOrder(DOMAIN m.dentryTree)[i]]]]

\* the loop of ApplySnapshot over the items after the first one; acc holds
\* the local variables cursor, inodeTree, dentryTree and err
RECURSIVE ApplySnapshotLoop(_, _)
ApplySnapshotLoop(acc, items) ==
    IF items = <<>> THEN [acc EXCEPT !.err = "EOF"]
    ELSE LET snap == Head(items) IN
         CASE snap.Op = "iterError" -> [acc EXCEPT !.err = "iter"]
           [] snap.Op = "opCreateInode" ->
                ApplySnapshotLoop(
                    [acc EXCEPT !.cursor = IF acc.cursor < snap.V.Inode THEN snap.V.Inode ELSE acc.cursor,
                                !.inodeTree = TreePut(acc.inodeTree, snap.V.Inode, snap.V)],
                    Tail(items))
           [] snap.Op = "opCreateDentry" ->
                ApplySnapshotLoop(
                    [acc EXCEPT !.dentryTree = TreePut(acc.dentryTree, DentryKey(snap.V), snap.V)],
                    Tail(items))
           [] OTHER -> [acc EXCEPT !.err = "unknown op"]

\* every tree object of m leaves the tree when the trees are replaced
DetachAll(m) ==
    [i \in DOMAIN m.freeList |->
        IF m.freeList[i].ref = "tree" THEN CopyRef(m.inodeTree[m.freeList[i].Inode])
        ELSE m.freeList[i]]

\* an ApplySnapshot that fills the trees the partition holds
ApplySnapshotMergesTrees(m, items) ==
    LET first == Head(items)
        acc0 == [cursor |-> 0, inodeTree |-> m.inodeTree, dentryTree |-> m.dentryTree, err |-> "nil"]
        res == IF first.Op = "iterError" THEN [acc0 EXCEPT !.err = "iter"]
               ELSE ApplySnapshotLoop(acc0, Tail(items))
    IN  IF res.err = "EOF"
        THEN [mp |-> [m EXCEPT !.applyID = first.V,
                               !.inodeTree = res.inodeTree,
                               !.dentryTree = res.dentryTree,
                               !.Cursor = res.cursor,
                               !.freeList = DetachAll(m)],
              err |-> "nil"]
        ELSE [mp |-> m, err |-> res.err]

\* an ApplySnapshot that installs what it has built so far when it fails
ApplySnapshotKeepsPartial(m, items) ==
    LET first == Head(items)
        acc0 == [cursor |-> 0, inodeTree |-> EmptyTree, dentryTree |-> EmptyTree, err |-> "nil"]
        res == IF first.Op = "iterError" THEN [acc0 EXCEPT !.err = "iter"]
               ELSE ApplySnapshotLoop(acc0, Tail(items))
    IN  [mp |-> [m EXCEPT !.applyID = IF first.Op = "iterError" THEN m.applyID ELSE first.V,
                          !.inodeTree = res.inodeTree,
                          !.dentryTree = res.dentryTree,
                          !.Cursor = res.cursor,
                          !.freeList = DetachAll(m)],
         err |-> IF res.err = "EOF" THEN "nil" ELSE res.err]

ApplySnapshot(m, items) ==
    LET first == Head(items)
        acc0 == [cursor |-> 0, inodeTree |-> EmptyTree, dentryTree |-> EmptyTree, err |-> "nil"]
        res == IF first.Op = "iterError" THEN [acc0 EXCEPT !.err = "iter"]
               ELSE ApplySnapshotLoop(acc0, Tail(items))
    IN  IF res.err = "EOF"
        THEN [mp |-> [m EXCEPT !.applyID = first.V,
                               !.inodeTree = res.inodeTree,
                               !.dentryTree = res.dentryTree,
                               !.Cursor = res.cursor,
                               !.freeList = DetachAll(m)],
              err |-> "nil"]
        ELSE [mp |-> m, err |-> res.err]

\* ------------------------------------------------------------------------
\* Inode id allocation and leader change
\* ------------------------------------------------------------------------
\* an allocation that gives out one id past the end of the range
nextInodeIDPastEnd(m) ==
    IF m.Cursor > m.End THEN [mp |-> m, inodeId |-> 0, err |-> "ErrInodeIDOutOfRange"]
    ELSE [mp |-> [m EXCEPT !.Cursor = m.Cursor + 1], inodeId |-> m.Cursor + 1, err |-> "nil"]

nextInodeID(m) ==
    IF m.Cursor >= m.End THEN [mp |-> m, inodeId |-> 0, err |-> "ErrInodeIDOutOfRange"]
    ELSE [mp |-> [m EXCEPT !.Cursor = m.Cursor + 1], inodeId |-> m.Cursor + 1, err |-> "nil"]

\* a leader change that seeds the root inode in the leader's own tree instead
\* of submitting its creation to raft
HandleLeaderChangeSeedsTree(m, q, nodeId, leader, dialOk) ==
    IF ~dialOk THEN [mp |-> m, tick |-> "same", q |-> q, alloc |-> FALSE]
    ELSE IF nodeId # leader THEN [mp |-> m, tick |-> "stop", q |-> q, alloc |-> FALSE]
    ELSE IF m.Start = 0 /\ m.Cursor = 0
         THEN LET a == nextInodeID(m) IN
              [mp |-> IF a.err = "nil"
                      THEN createInode(a.mp, NewInode(a.inodeId, ModeDir)).mp ELSE a.mp,
               tick |-> "start", q |-> q, alloc |-> a.err = "nil"]
         ELSE [mp |-> m, tick |-> "start", q |-> q, alloc |-> FALSE]

\* a leader change that seeds a root inode on the first partition whatever
\* its cursor
HandleLeaderChangeIgnoresCursor(m, q, nodeId, leader, dialOk) ==
    IF ~dialOk THEN [mp |-> m, tick |-> "same", q |-> q, alloc |-> FALSE]
    ELSE IF nodeId # leader THEN [mp |-> m, tick |-> "stop", q |-> q, alloc |-> FALSE]
    ELSE IF m.Start = 0
         THEN LET a == nextInodeID(m) IN
              [mp |-> a.mp, tick |-> "start",
               q |-> IF a.err = "nil" THEN q \cup {a.inodeId} ELSE q,
               alloc |-> a.err = "nil"]
         ELSE [mp |-> m, tick |-> "start", q |-> q, alloc |-> FALSE]

\* HandleLeaderChange on the replica with NodeId = nodeId; q is the queue of
\* root inodes handed to the initInode goroutine; dialOk: the dial of the
\* local server port succeeded (otherwise the handler returns at once)
HandleLeaderChange(m, q, nodeId, leader, dialOk) ==
    IF ~dialOk THEN [mp |-> m, tick |-> "same", q |-> q, alloc |-> FALSE]
    ELSE IF nodeId # leader THEN [mp |-> m, tick |-> "stop", q |-> q, alloc |-> FALSE]
    ELSE IF m.Start = 0 /\ m.Cursor = 0
         THEN LET a == nextInodeID(m) IN
              [mp |-> a.mp, tick |-> "start",
               q |-> IF a.err = "nil" THEN q \cup {a.inodeId} ELSE q,
               alloc |-> a.err = "nil"]
         ELSE [mp |-> m, tick |-> "start", q |-> q, alloc |-> FALSE]


\* ------------------------------------------------------------------------
\* Free-list workers
\* ------------------------------------------------------------------------
\* what happens to the MarkDelete of one ExtentKey in stepFunc:
\*   "fail"      no partition, no connection, WriteToConn or ReadFromConn failed
\*   "replyErr"  reply read, its ResultCode is an error (the DataPartition refused)
\*   "replyOk"   reply read, its ResultCode is OpOk (the DataPartition accepted)
Outcomes == {"fail", "replyErr", "replyOk"}

\* stepFunc returns nil as soon as a reply was read
stepFunc(out, ext) == IF out[ext] \in {"replyErr", "replyOk"} THEN "nil" ELSE "err"

\* the ExtentKeys of the inode record behind a free-list element
RecordKeys(m, e) ==
    IF e.Inode \in DOMAIN m.inodeTree THEN Range(m.inodeTree[e.Inode].Extents)
    ELSE Range(e.Extents)

\* the loop of deleteDataPartitionMark over the popped elements
RECURSIVE markLoop(_, _, _, _)
markLoop(m, inoSlice, out, acc) ==
    IF inoSlice = <<>> THEN acc
    ELSE LET e == Head(inoSlice)
             exts == Deref(m, e).Extents
             reExt == SelectSeq(exts, LAMBDA v : stepFunc(out, v) # "nil")
             ok == {v \in Range(exts) : out[v] = "replyOk"}
             acc1 == [acc EXCEPT !.issued = @ \cup Range(exts), !.accepted = @ \cup ok,
                                 !.failed = @ \cup Range(reExt)]
         IN  markLoop(m, Tail(inoSlice), out,
                 IF reExt = <<>>
                 THEN [acc1 EXCEPT !.shouldCommit = Append(@, e)]
                 ELSE [acc1 EXCEPT !.freeList =
                          freeListPush(@, [Inode |-> e.Inode, Type |-> e.Type,
                                           Extents |-> reExt, ref |-> "copy"])])

\* a deleteDataPartitionMark that drops an inode whose MarkDelete failed
\* instead of pushing it back on the free list
deleteDataPartitionMarkNoRetry(m, inoSlice, out, putOk) ==
    LET acc == markLoop(m, inoSlice, out,
                   [freeList |-> m.freeList, shouldCommit |-> <<>>,
                    issued |-> {}, accepted |-> {}, failed |-> {}])
        commit == acc.shouldCommit
        ids == [i \in DOMAIN commit |-> commit[i].Inode]
    IN  [freeList |-> IF commit # <<>> /\ ~putOk THEN m.freeList \o commit ELSE m.freeList,
         put |-> IF commit # <<>> /\ putOk THEN <<CmdInternalDelete(ids)>> ELSE <<>>,
         issued |-> acc.issued,
         accepted |-> acc.accepted,
         failed |-> acc.failed,
         batch |-> IF commit # <<>> /\ putOk
                   THEN UNION {RecordKeys(m, commit[i]) : i \in DOMAIN commit} ELSE {}]

\* deleteDataPartitionMark(inoSlice): m is the partition after the pops,
\* putOk tells whether mp.Put(opFSMInternalDeleteInode, ...) succeeds
deleteDataPartitionMark(m, inoSlice, out, putOk) ==
    LET acc == markLoop(m, inoSlice, out,
                   [freeList |-> m.freeList, shouldCommit |-> <<>>,
                    issued |-> {}, accepted |-> {}, failed |-> {}])
        commit == acc.shouldCommit
        ids == [i \in DOMAIN commit |-> commit[i].Inode]
    IN  [freeList |-> IF commit # <<>> /\ ~putOk THEN acc.freeList \o commit ELSE acc.freeList,
         put |-> IF commit # <<>> /\ putOk THEN <<CmdInternalDelete(ids)>> ELSE <<>>,
         issued |-> acc.issued,
         accepted |-> acc.accepted,
         failed |-> acc.failed,
         batch |-> IF commit # <<>> /\ putOk
                   THEN UNION {RecordKeys(m, commit[i]) : i \in DOMAIN commit} ELSE {}]

\* a checkFreelist that pushes back every inode it popped
checkFreelistKeepsAll(m) ==
    LET n == IF Len(m.freeList) < BatchCounts THEN Len(m.freeList) ELSE BatchCounts
        buffSlice == SubSeq(m.freeList, 1, n)
        rest == SubSeq(m.freeList, n + 1, Len(m.freeList))
    IN  [m EXCEPT !.freeList = rest \o buffSlice]

\* one pass of the loop of checkFreelistWorker on a follower
checkFreelist(m) ==
    LET n == IF Len(m.freeList) < BatchCounts THEN Len(m.freeList) ELSE BatchCounts
        buffSlice == SubSeq(m.freeList, 1, n)
        rest == SubSeq(m.freeList, n + 1, Len(m.freeList))
    IN  [m EXCEPT !.freeList =
            rest \o SelectSeq(buffSlice, LAMBDA ino : ino.Inode \in DOMAIN m.inodeTree)]


\* ------------------------------------------------------------------------
\* The MetaPartition replicas as a state machine
\* ------------------------------------------------------------------------
NewMetaPartition ==
    [inodeTree |-> EmptyTree, dentryTree |-> EmptyTree, Cursor |-> PartitionStart,
     applyID |-> 0, freeList |-> <<>>, Start |-> PartitionStart, End |-> PartitionEnd]

InitMeta ==
    /\ raftLog = <<>>
    /\ raftApplied = [r \in Replica |-> 0]
    /\ raftLeader = 0
    /\ mp = [r \in Replica |-> NewMetaPartition]
    /\ storeTick = [r \in Replica |-> FALSE]
    /\ initInodeQ = [r \in Replica |-> {}]
    /\ snapCount = 0
    /\ origin = [r \in Replica |-> "log"]
    /\ accepted = {}
    /\ batchKeys = {}
    /\ evictedKeys = {}
    /\ failedKeys = {}
    /\ attemptFlip = [k \in Keys |-> FALSE]

\* the evict command takes effect on m: a regular inode with nlink == 0 is
\* marked and queued
EvictTakesEffect(m, cmd) ==
    /\ cmd.Op = "opFSMEvictInode"
    /\ cmd.Inode \in DOMAIN m.inodeTree
    /\ m.inodeTree[cmd.Inode].Type # ModeDir
    /\ m.inodeTree[cmd.Inode].MarkDelete # 1
    /\ m.inodeTree[cmd.Inode].NLink < 1

\* a client request reaches the leader, which submits the command to raft
Submit(cmd, cap) ==
    /\ raftLeader # 0
    /\ Len(raftLog) < cap
    /\ raftLog' = Append(raftLog, cmd)
    /\ UNCHANGED <<raftApplied, raftLeader, mp, storeTick, initInodeQ, snapCount, origin,
                   batchGhosts, issueGhosts>>

\* raft hands the next committed entry to Apply on replica r
ApplyEntry(r) ==
    /\ raftApplied[r] < Len(raftLog)
    /\ LET index == raftApplied[r] + 1
           cmd == raftLog[index]
       IN  /\ cmd.Op # "confChange"
           /\ mp' = [mp EXCEPT ![r] = Apply(mp[r], cmd, index).mp]
    /\ raftApplied' = [raftApplied EXCEPT ![r] = @ + 1]
    /\ UNCHANGED <<raftLog, raftLeader, storeTick, initInodeQ, snapCount, origin, batchGhosts>>

\* records the ExtentKeys of the inode when the entry replica r applies next is
\* an evict that marks it and r is the leader
TrackEvict(r) ==
    /\ LET cmd == raftLog[raftApplied[r] + 1] IN
          evictedKeys' = IF r = raftLeader /\ EvictTakesEffect(mp[r], cmd)
                         THEN evictedKeys \cup Range(mp[r].inodeTree[cmd.Inode].Extents)
                         ELSE evictedKeys
    /\ UNCHANGED <<failedKeys, attemptFlip>>

\* raft hands the next committed configuration change to ApplyMemberChange
ApplyConfChange(r) ==
    /\ raftApplied[r] < Len(raftLog)
    /\ LET index == raftApplied[r] + 1
           cmd == raftLog[index]
       IN  /\ cmd.Op = "confChange"
           /\ mp' = [mp EXCEPT ![r] = ApplyMemberChange(mp[r], cmd, index).mp]
    /\ raftApplied' = [raftApplied EXCEPT ![r] = @ + 1]
    /\ UNCHANGED <<raftLog, raftLeader, storeTick, initInodeQ, snapCount, origin,
                   batchGhosts, issueGhosts>>

\* the item stream as the receiver sees it: whole, cut by an iterator error
\* after n items, or with an item of an unknown Op after n items
Streams(items) ==
    {items}
    \cup {SubSeq(items, 1, n) \o <<[Op |-> "iterError", V |-> 0]>> : n \in 0..Len(items)}
    \cup {SubSeq(items, 1, n) \o <<[Op |-> "opUnknown", V |-> 0]>> : n \in 1..Len(items)}

\* raft installs on follower r a snapshot the leader d took of its state
InstallSnapshot(r, d) ==
    /\ r # d
    /\ d = raftLeader
    /\ snapCount < MaxSnap
    /\ \E items \in Streams(Snapshot(mp[d])) :
          LET res == ApplySnapshot(mp[r], items) IN
          /\ mp' = [mp EXCEPT ![r] = res.mp]
          /\ raftApplied' = [raftApplied EXCEPT ![r] = IF res.err = "nil" THEN raftApplied[d] ELSE @]
          /\ origin' = [origin EXCEPT ![r] = IF res.err = "nil" THEN "snap" ELSE @]
          /\ snapCount' = IF res.err = "nil" THEN snapCount + 1 ELSE snapCount
    /\ UNCHANGED <<raftLog, raftLeader, storeTick, initInodeQ,
                   batchGhosts, issueGhosts>>

\* raft elects l and calls HandleLeaderChange(l) on every replica; dials: the
\* outcomes the dial of the local server port may have on each replica
LeaderChange(l, dials) ==
    /\ l # raftLeader
    /\ raftLeader' = l
    /\ \E dial \in [Replica -> dials] :
          LET h == [r \in Replica |-> HandleLeaderChange(mp[r], initInodeQ[r], r, l, dial[r])] IN
          /\ mp' = [r \in Replica |-> h[r].mp]
          /\ storeTick' = [r \in Replica |->
                              IF h[r].tick = "same" THEN storeTick[r] ELSE h[r].tick = "start"]
          /\ initInodeQ' = [r \in Replica |-> h[r].q]
          /\ origin' = [r \in Replica |->
                           IF h[r].alloc /\ origin[r] = "log" THEN "alloc" ELSE origin[r]]
    /\ UNCHANGED <<raftLog, raftApplied, snapCount, batchGhosts, issueGhosts>>

\* the leader allocates an inode id for a create request
NextInodeID(r) ==
    /\ r = raftLeader
    /\ LET a == nextInodeID(mp[r]) IN
          /\ mp' = [mp EXCEPT ![r] = a.mp]
          /\ origin' = [origin EXCEPT ![r] = IF a.err = "nil" /\ @ = "log" THEN "alloc" ELSE @]
    /\ UNCHANGED <<raftLog, raftApplied, raftLeader, storeTick, initInodeQ, snapCount,
                   batchGhosts, issueGhosts>>

\* the initInode goroutine submits the create of the root inode
InitInode(r, cap) ==
    /\ r = raftLeader
    /\ Len(raftLog) < cap
    /\ \E ino \in initInodeQ[r] :
          /\ raftLog' = Append(raftLog, CmdCreateInode(ino, ModeDir))
          /\ initInodeQ' = [initInodeQ EXCEPT ![r] = @ \ {ino}]
    /\ UNCHANGED <<raftApplied, raftLeader, mp, storeTick, snapCount, origin,
                   batchGhosts, issueGhosts>>

\* one pass of the loop of deleteWorker over a non-empty free list: the pops
\* and deleteDataPartitionMark
deleteWorkerPass(m, out, putOk) ==
    LET fl == m.freeList
        n == IF Len(fl) < BatchCounts THEN Len(fl) ELSE BatchCounts
        buffSlice == SubSeq(fl, 1, n)
        m1 == [m EXCEPT !.freeList = SubSeq(fl, n + 1, Len(fl))]
        d == deleteDataPartitionMark(m1, buffSlice, out, putOk)
    IN  [mp |-> [m1 EXCEPT !.freeList = d.freeList], put |-> d.put, issued |-> d.issued,
         accepted |-> d.accepted, failed |-> d.failed, batch |-> d.batch]

\* one pass of deleteWorker on replica r; out: what happens to the MarkDelete
\* of each ExtentKey in this pass; Put fails when raft takes no more entries
DeleteWorker(r, cap, out) ==
    /\ r = raftLeader
    /\ mp[r].freeList # <<>>
    /\ LET w == deleteWorkerPass(mp[r], out, Len(raftLog) < cap) IN
          /\ mp' = [mp EXCEPT ![r] = w.mp]
          /\ raftLog' = raftLog \o w.put
    /\ UNCHANGED <<raftApplied, raftLeader, storeTick, initInodeQ, snapCount, origin>>

\* records what the pass of DeleteWorker(r, cap, out) got accepted and batched
TrackBatch(r, cap, out) ==
    LET w == deleteWorkerPass(mp[r], out, Len(raftLog) < cap) IN
    /\ accepted' = accepted \cup w.accepted
    /\ batchKeys' = batchKeys \cup w.batch

\* records what the pass of DeleteWorker(r, cap, out) issued and what failed
TrackIssue(r, cap, out) ==
    LET w == deleteWorkerPass(mp[r], out, Len(raftLog) < cap) IN
    /\ evictedKeys' = evictedKeys \ w.issued
    /\ failedKeys' = (failedKeys \ w.issued) \cup w.failed
    /\ attemptFlip' = [k \in Keys |-> IF k \in w.issued THEN ~attemptFlip[k]
                                       ELSE attemptFlip[k]]

\* one pass of checkFreelistWorker on replica r
CheckFreelistWorker(r) ==
    /\ r # raftLeader
    /\ mp[r].freeList # <<>>
    /\ mp' = [mp EXCEPT ![r] = checkFreelist(mp[r])]
    /\ UNCHANGED <<raftLog, raftApplied, raftLeader, storeTick, initInodeQ, snapCount, origin,
                   batchGhosts, issueGhosts>>

\* commands clients send in the runs that exercise the FSM
FsmCmds ==
    {CmdCreateInode(i, t) : i \in InodeIds, t \in Modes}
    \cup {CmdDeleteInode(i) : i \in InodeIds}
    \cup {CmdInternalDelete(<<i>>) : i \in InodeIds}
    \cup {CmdCreateDentry(i, ModeRegular) : i \in InodeIds}
    \cup {CmdDeleteDentry, CmdBad, CmdConfChange(TRUE), CmdConfChange(FALSE)}


\* ------------------------------------------------------------------------
\* ExtentStore
\* ------------------------------------------------------------------------
MaxExtentId == 3   \* extent ids used by callers are MinExtentId..MaxExtentId
MaxDelete == 2     \* records the EXTENT_DELETE file may hold
MaxAlloc == 2      \* calls of NextExtentId that are recorded

StoreInodes == {1}

\* store_extent.go
ExtMetaBaseIdOffset == 0
ExtMetaBaseIdSize == 8
ExtMetaDeleteIdxOffset == 8
ExtMetaDeleteIdxSize == 8
ExtMetaFileSize == ExtMetaBaseIdSize + ExtMetaDeleteIdxSize
TinyExtentCount == 128
TinyExtentStartId == 50000000
MinExtentId == 2

ExtentIds == MinExtentId..MaxExtentId

\* util.BlockSize, util.BlockCount
BlockSize == 131072
BlockCount == 1024

VARIABLES
    extFiles,       \* entry files of dataDir: id -> [Inode, Deleted, Size] (header + data length)
    extentInfoMap,  \* s.extentInfoMap: id -> FileInfo
    cache,          \* s.cache: ids of the extents held open with a loaded header
    baseExtentId,   \* s.baseExtentId
    metaFile,       \* bytes of EXTENT_META
    deleteFile,     \* bytes of EXTENT_DELETE
    allocated,      \* the ids returned by NextExtentId, in order
    unlinked,       \* the ids whose entry file FlushDelete removed, in order
    storeOp         \* the last operation on the store and its result

storeVars == <<extFiles, extentInfoMap, cache, baseExtentId, metaFile, deleteFile,
               allocated, unlinked, storeOp>>

\* the leader's MessageHandler of one replication pipeline (datanode)
VARIABLES
    sentList,       \* msgH.sentList: the packets pushed to the followers, oldest first
    replyCh,        \* msgH.replyCh: the replies accepted as acknowledgements
    reqSeq,         \* the ReqID given to the last packet
    pipeOp          \* the last operation on the MessageHandler and its result

pipeVars == <<sentList, replyCh, reqSeq, pipeOp>>

\* the calls of nextInodeID and the range updates seen by each replica
VARIABLES
    allocOp,        \* the last operation on the inode range and its result
    allocFailed     \* per replica: "failed" once nextInodeID has failed, "lowered"
                    \* once a range update has lowered End after that

allocVars == <<allocOp, allocFailed>>

InitAlloc ==
    /\ allocOp = [op |-> "none", r |-> 0, inodeId |-> 0, err |-> "nil"]
    /\ allocFailed = [r \in Replica |-> "no"]

\* one normal extent (fsExtent) with the bytes of its entry file
VARIABLES
    fsBody,         \* the bytes of the entry file after the header
    fsCrc,          \* the per-block CRCs of the header, each as its 4 bytes
    fsDataSize,     \* e.dataSize
    fsOp            \* the last operation on the extent and its result

extentVars == <<fsBody, fsCrc, fsDataSize, fsOp>>

\* MaxTiny of the TinyExtentCount tiny extents of a store are followed
MaxTiny == 3

TinyIds == TinyExtentStartId..(TinyExtentStartId + MaxTiny - 1)

\* the tiny extents in the order initTinyExtent walks them
RECURSIVE TinyOrder(_)
TinyOrder(n) == IF n = 0 THEN <<>> ELSE Append(TinyOrder(n - 1), TinyExtentStartId + n - 1)

VARIABLES
    avaliTinyExtentCh,    \* s.avaliTinyExtentCh: the ids a writer may claim
    unavaliTinyExtentCh,  \* s.unavaliTinyExtentCh
    tinyOp                \* the last call on the tiny pool: [op, ids, err]

tinyVars == <<avaliTinyExtentCh, unavaliTinyExtentCh, tinyOp>>

\* the channels as NewExtentStore leaves them
InitTiny ==
    /\ avaliTinyExtentCh = <<>>
    /\ unavaliTinyExtentCh = TinyOrder(MaxTiny)
    /\ tinyOp = [op |-> "initTinyExtent", ids |-> <<>>, err |-> "nil"]

\* one tiny extent (fsExtent) with the pages of its entry file
VARIABLES
    tinyPages,      \* the pages of the entry file that hold data (the others are holes)
    tinyDataSize,   \* e.dataSize
    punchOp         \* the last operation on the tiny extent, its result, and the
                    \* pages the file held before it

punchVars == <<tinyPages, tinyDataSize, punchOp>>

\* a tiny extent as initTinyExtent creates it
InitPunch ==
    /\ tinyPages = {}
    /\ tinyDataSize = 0
    /\ punchOp = [op |-> "InitToFS", offset |-> 0, size |-> 0, err |-> "nil", before |-> {}]

\* the clock of the data node and the modification times of the entry files
VARIABLES
    snapNow,        \* time.Now().Unix()
    snapModTime,    \* per extent id: FileInfo.ModTime.Unix()
    snapOp          \* the last SnapShot: [op, files]

snapVars == <<snapNow, snapModTime, snapOp>>

InitSnap ==
    /\ snapNow = 0
    /\ snapModTime = <<>>
    /\ snapOp = [op |-> "none", files |-> {}]

\* the MetaNode's directories and its metadataManager at startup
VARIABLES
    mgrRootDir,     \* the directories of m.rootDir: [expired, suffix, ts] stands for
                    \* partition_<suffix> or expired_partition_<suffix>_<ts>
    mgrRaftDir,     \* the directories of raftDir: <suffix> or expired_<suffix>_<ts>
    mgrPartitions,  \* m.partitions: the ids of the attached partitions
    mgrStarts,      \* the starts of the MetaNode so far, which is also its clock
    mgrOp           \* the last loadPartitions with what it met

mgrVars == <<mgrRootDir, mgrRaftDir, mgrPartitions, mgrStarts, mgrOp>>

\* the MetadataFsm of each master with its store
VARIABLES
    mfLog,          \* the raft log of the masters: the commands submitted
    mfIndex,        \* per master: index of the last entry raft handed to Apply
    mfStore,        \* per master: mf.store, key -> value
    mfApplied,      \* per master: mf.applied
    mfOp            \* the last call on a MetadataFsm and its result

masterVars == <<mfLog, mfIndex, mfStore, mfApplied, mfOp>>

\* the cursor of one replica under its concurrent users: the callers of
\* nextInodeID and the apply loop
VARIABLES
    ncCursor,       \* mp.config.Cursor
    ncEnd,          \* mp.config.End
    ncPc,           \* per caller: where it is in nextInodeID
    ncCur,          \* per caller: the local cur
    ncCalls,        \* calls of nextInodeID started
    ncReturned,     \* the inode ids nextInodeID has returned, in order
    ncPending,      \* inode ids of the opCreateInode entries Apply has yet to get
    ncApplyPc,      \* where Apply is in its update of the cursor
    ncLeader        \* whether the replica is the leader

cursorVars ==
    <<ncCursor, ncEnd, ncPc, ncCur, ncCalls, ncReturned, ncPending, ncApplyPc, ncLeader>>

MaxCalls == 3       \* calls of nextInodeID
MaxPending == 2     \* committed creates a new leader has yet to apply
Callers == {1, 2}

\* a follower that applied nothing yet
InitCursor ==
    /\ ncCursor = 0
    /\ ncEnd = MaxCalls + MaxPending
    /\ ncPc = [c \in Callers |-> "idle"]
    /\ ncCur = [c \in Callers |-> 0]
    /\ ncCalls = 0
    /\ ncReturned = <<>>
    /\ ncPending = <<>>
    /\ ncApplyPc = "idle"
    /\ ncLeader = FALSE

\* the last iteration of the loop of checkFreelistWorker
VARIABLES
    auditOp         \* the replica it ran on, what it popped and what it dropped

auditVars == <<auditOp>>

MaxAudit == 2      \* iterations of checkFreelistWorker in a run

InitAudit == auditOp = [op |-> "none", r |-> 0, popped |-> 0, dropped |-> 0, n |-> 0]

\* the connections of the leader's MessageHandler and what a teardown did
VARIABLES
    connectMap,     \* msgH.connectMap: extent id of a normal write -> connection
    connOpen,       \* the follower connections that are open
    connSeq,        \* the connections handed out so far
    destroyed       \* ReqIDs of the packets forceDestoryAllConnect was called on

tearVars == <<connectMap, connOpen, connSeq, destroyed>>

InitTear ==
    /\ connectMap = <<>>
    /\ connOpen = {}
    /\ connSeq = 0
    /\ destroyed = {}

\* the workers of a metaPartition and of a dataPartition with their stop
\* channels
VARIABLES
    mpStopC,        \* mp.stopC of the metaPartition is closed
    dpStopC,        \* dp.stopC of the dataPartition is closed
    workerPc,       \* per worker: where it is in its loop
    tickReady,      \* the tickers of statusUpdateScheduler that hold a tick
    begun,          \* per worker: iterations it began with its stop channel closed
    lateRepairs     \* calls of fileRepair begun with dp.stopC closed

stopVars == <<mpStopC, dpStopC, workerPc, tickReady, begun, lateRepairs>>

Workers == {"deleteWorker", "checkFreelistWorker", "statusUpdateScheduler"}

\* the goroutines have been started
InitStop ==
    /\ mpStopC = FALSE
    /\ dpStopC = FALSE
    /\ workerPc = [w \in Workers |-> IF w = "statusUpdateScheduler" THEN "select" ELSE "sleep"]
    /\ tickReady = {}
    /\ begun = [w \in Workers |-> 0]
    /\ lateRepairs = 0

\* the last call of ApplySnapshot: the replica, the error it returned, the
\* items the iterator gave before it failed, and the calls so far
VARIABLES lastSnap

applyVars == <<lastSnap>>

InitApplySnap == lastSnap = [r |-> 0, err |-> "none", items |-> 0, n |-> 0]

\* concurrent calls of ExtentStore.Create on one store
VARIABLES
    ccBase,         \* s.baseExtentId
    ccMeta,         \* the eight bytes of META at ExtMetaBaseIdOffset
    ccPc,           \* per caller: where it is in Create / UpdateBaseExtentId
    ccId,           \* per caller: the extent id it creates
    ccBytes,        \* per caller: baseExtentIdBytes
    ccCreated       \* the extent ids created

createVars == <<ccBase, ccMeta, ccPc, ccId, ccBytes, ccCreated>>

Creators == {1, 2}


\* the lifecycle of one MetaPartition under concurrent Start and Stop calls
VARIABLES
    lifeState,      \* mp.state
    lifePc,         \* per caller: where it is in Start or Stop
    lifeErr,        \* per caller: err of its Start
    lifeRuns,       \* how often the CAS of Start and of Stop took effect and
                    \* how often onStart, BeforeStop, onStop of Stop and AfterStop ran
    lifeOp          \* the last call: its name, whether its CAS took effect,
                    \* the state it found, and the calls so far

lifeVars == <<lifeState, lifePc, lifeErr, lifeRuns, lifeOp>>

LifeCallers == {1, 2}

\* a partition that was created and not started yet
InitLife ==
    /\ lifeState = "StateStandby"
    /\ lifePc = [c \in LifeCallers |-> "idle"]
    /\ lifeErr = [c \in LifeCallers |-> FALSE]
    /\ lifeRuns = [starts |-> 0, onStart |-> 0, stops |-> 0, beforeStop |-> 0,
                   onStop |-> 0, afterStop |-> 0]
    /\ lifeOp = [op |-> "none", swapped |-> FALSE, found |-> "StateStandby", n |-> 0]

\* the ConnectPool and the concurrent callers of its Get
VARIABLES
    cpPools,        \* cp.pools: target -> the Pool installed, 0 for none
    poolIdle,       \* per Pool made: the idle connections in its channel
    poolTarget,     \* per Pool made: its target
    cpPc,           \* per caller: where it is in ConnectPool.Get
    cpAddr,         \* per caller: targetAddr
    cpPool          \* per caller: the local variable pool

poolVars == <<cpPools, poolIdle, poolTarget, cpPc, cpAddr, cpPool>>

Targets == {"a", "b"}
Getters == {1, 2}

\* NewConnectPool: no pools
InitPool ==
    /\ cpPools = [t \in Targets |-> 0]
    /\ poolIdle = <<>>
    /\ poolTarget = <<>>
    /\ cpPc = [c \in Getters |-> "idle"]
    /\ cpAddr = [c \in Getters |-> "a"]
    /\ cpPool = [c \in Getters |-> 0]

\* the last send on a tiny channel: the call, the channel, the ids sent,
\* whether the sender found the channel full, and the calls so far
VARIABLES putOp

putVars == <<putOp>>

InitPut == putOp = [op |-> "none", ch |-> "none", ids |-> <<>>, blocked |-> FALSE, n |-> 0]

restVars == <<tinyVars, punchVars, snapVars, mgrVars, masterVars, cursorVars, auditVars, tearVars, stopVars, applyVars, createVars, lifeVars, poolVars, putVars>>

\* a MetaNode that has not started yet, with no directory
InitMgr ==
    /\ mgrRootDir = {}
    /\ mgrRaftDir = {}
    /\ mgrPartitions = {}
    /\ mgrStarts = 0
    /\ mgrOp = [op |-> "none", list |-> {}, renameOk |-> {}, metaOk |-> {}, ts |-> 0]

\* newMetadataFsm on an empty store directory, restore done
InitMaster ==
    /\ mfLog = <<>>
    /\ mfIndex = [f \in Replica |-> 0]
    /\ mfStore = [f \in Replica |-> <<>>]
    /\ mfApplied = [f \in Replica |-> 0]
    /\ mfOp = [op |-> "restore", fsm |-> 0, applyIndex |-> 0, err |-> "nil"]


vars == <<metaVars, storeVars, pipeVars, allocVars, extentVars, restVars>>

\* what a step of the MetaPartition, or of the ExtentStore, leaves alone
notMeta == <<storeVars, pipeVars, allocVars, extentVars, restVars>>
notStore == <<metaVars, pipeVars, allocVars, extentVars, restVars>>
notPipe == <<metaVars, storeVars, allocVars, extentVars, restVars>>
notExtent == <<metaVars, storeVars, pipeVars, allocVars, restVars>>

\* binary.BigEndian.PutUint64 / Uint64 on n bytes
RECURSIVE BigEndianPut(_, _)
BigEndianPut(v, n) == IF n = 0 THEN <<>> ELSE Append(BigEndianPut(v \div 256, n - 1), v % 256)

RECURSIVE BigEndianGet(_)
BigEndianGet(b) == IF b = <<>> THEN 0
                   ELSE BigEndianGet(SubSeq(b, 1, Len(b) - 1)) * 256 + b[Len(b)]

PutUint64(v) == BigEndianPut(v, 8)
Uint64(b) == BigEndianGet(b)

\* f.WriteAt(b, off) on a file that is at least off + Len(b) bytes long
WriteAt(file, b, off) ==
    [i \in DOMAIN file |-> IF i > off /\ i <= off + Len(b) THEN b[i - off] ELSE file[i]]

ReadAt(file, n, off) == SubSeq(file, off + 1, off + n)

IsTinyExtent(extentId) ==
    extentId >= TinyExtentStartId /\ extentId < TinyExtentStartId + TinyExtentCount

\* FileInfo.FromExtent; header: whether the extent object has its header loaded
FromExtent(f, header) ==
    [Inode |-> IF header THEN f.Inode ELSE 0,
     Size |-> f.Size,
     Deleted |-> IF header THEN f.Deleted ELSE FALSE]

\* the store as a record, for the operators below
Store == [extFiles |-> extFiles, extentInfoMap |-> extentInfoMap, cache |-> cache,
          baseExtentId |-> baseExtentId, metaFile |-> metaFile, deleteFile |-> deleteFile]

UpdateBaseExtentId(s, id) ==
    IF IsTinyExtent(id) THEN s
    ELSE IF id >= s.baseExtentId
         THEN [s EXCEPT !.baseExtentId = id,
                        !.metaFile = WriteAt(s.metaFile, PutUint64(id), ExtMetaBaseIdOffset)]
         ELSE s

\* getExtentWithHeader: a cache hit, or a load from disk that enters the cache
getExtentWithHeader(s, id) ==
    IF id \in s.cache THEN [s |-> s, err |-> "nil"]
    ELSE IF id \in DOMAIN s.extFiles
         THEN [s |-> [s EXCEPT !.cache = @ \cup {id}], err |-> "nil"]
         ELSE [s |-> s, err |-> "ErrorFileNotFound"]

storeCheckOffsetAndSize(id, offset, size) ==
    IF IsTinyExtent(id) THEN "nil"
    ELSE IF offset + size > BlockSize * BlockCount THEN "ParamMismatch"
    ELSE IF offset >= BlockCount * BlockSize \/ size = 0 THEN "ParamMismatch"
    ELSE IF size > BlockSize THEN "ParamMismatch"
    ELSE "nil"

StoreCreate(s, id, ino, overwrite) ==
    IF id \in DOMAIN s.extentInfoMap
    THEN [s |-> s, err |-> IF overwrite THEN "nil" ELSE "ErrorExtentHasExsit"]
    ELSE IF id \in DOMAIN s.extFiles
    THEN [s |-> s, err |-> "EEXIST"]
    ELSE LET f == [Inode |-> ino, Deleted |-> FALSE, Size |-> 0]
             s1 == [s EXCEPT !.extFiles = TreePut(@, id, f),
                             !.cache = @ \cup {id},
                             !.extentInfoMap = TreePut(@, id, FromExtent(f, TRUE))]
         IN  [s |-> UpdateBaseExtentId(s1, id), err |-> "nil"]

\* a Write that does not look at the tombstone of the extent
StoreWriteIgnoresTombstone(s, id, offset, size) ==
    IF id \notin DOMAIN s.extentInfoMap THEN [s |-> s, err |-> "not exist"]
    ELSE LET g == getExtentWithHeader(s, id) IN
         IF g.err # "nil" THEN [s |-> g.s, err |-> g.err]
         ELSE IF storeCheckOffsetAndSize(id, offset, size) # "nil"
              THEN [s |-> g.s, err |-> "ParamMismatch"]
         ELSE LET f == [g.s.extFiles[id] EXCEPT !.Size = Max(@, offset + size)] IN
              [s |-> [g.s EXCEPT !.extFiles[id] = f,
                                 !.extentInfoMap[id] = FromExtent(f, TRUE)],
               err |-> "nil"]

\* a Write that moves the extent's size to the end of the written range
StoreWriteSetsSize(s, id, offset, size) ==
    IF id \notin DOMAIN s.extentInfoMap THEN [s |-> s, err |-> "not exist"]
    ELSE LET g == getExtentWithHeader(s, id) IN
         IF g.err # "nil" THEN [s |-> g.s, err |-> g.err]
         ELSE IF storeCheckOffsetAndSize(id, offset, size) # "nil"
              THEN [s |-> g.s, err |-> "ParamMismatch"]
         ELSE IF g.s.extFiles[id].Deleted THEN [s |-> g.s, err |-> "ErrorHasDelete"]
         ELSE LET f == [g.s.extFiles[id] EXCEPT !.Size = offset + size] IN
              [s |-> [g.s EXCEPT !.extFiles[id] = f,
                                 !.extentInfoMap[id] = FromExtent(f, TRUE)],
               err |-> "nil"]

StoreWrite(s, id, offset, size) ==
    IF id \notin DOMAIN s.extentInfoMap THEN [s |-> s, err |-> "not exist"]
    ELSE LET g == getExtentWithHeader(s, id) IN
         IF g.err # "nil" THEN [s |-> g.s, err |-> g.err]
         ELSE IF storeCheckOffsetAndSize(id, offset, size) # "nil"
              THEN [s |-> g.s, err |-> "ParamMismatch"]
         ELSE IF g.s.extFiles[id].Deleted THEN [s |-> g.s, err |-> "ErrorHasDelete"]
         ELSE LET f == [g.s.extFiles[id] EXCEPT !.Size = Max(@, offset + size)] IN
              [s |-> [g.s EXCEPT !.extFiles[id] = f,
                                 !.extentInfoMap[id] = FromExtent(f, TRUE)],
               err |-> "nil"]

StoreRead(s, id, offset, size) ==
    LET g == getExtentWithHeader(s, id) IN
    IF g.err # "nil" THEN [s |-> g.s, err |-> g.err]
    ELSE IF storeCheckOffsetAndSize(id, offset, size) # "nil"
         THEN [s |-> g.s, err |-> "ParamMismatch"]
    ELSE IF g.s.extFiles[id].Deleted THEN [s |-> g.s, err |-> "ErrorHasDelete"]
    ELSE [s |-> g.s, err |-> IF offset + size > g.s.extFiles[id].Size THEN "EOF" ELSE "nil"]

StoreMarkDelete(s, id) ==
    IF id \notin DOMAIN s.extentInfoMap THEN [s |-> s, err |-> "nil"]
    ELSE LET g == getExtentWithHeader(s, id) IN
         IF g.err # "nil" THEN [s |-> g.s, err |-> "nil"]
         ELSE [s |-> [g.s EXCEPT !.extFiles[id].Deleted = TRUE,
                                 !.cache = @ \ {id},
                                 !.extentInfoMap = TreeDelete(@, id),
                                 !.deleteFile = @ \o PutUint64(id)],
               err |-> "nil"]

\* the loop of FlushDelete over the bytes read from EXTENT_DELETE
RECURSIVE flushLoop(_, _, _, _)
flushLoop(s, buf, delIdxOff, removed) ==
    IF Len(buf) < 8 THEN [s |-> s, delIdxOff |-> delIdxOff, removed |-> removed]
    ELSE LET extentId == Uint64(SubSeq(buf, 1, 8))
             g == getExtentWithHeader(s, extentId)
             rest == SubSeq(buf, 9, Len(buf))
         IN  IF g.err # "nil" THEN flushLoop(s, rest, delIdxOff + 8, removed)
             ELSE flushLoop([g.s EXCEPT !.cache = @ \ {extentId},
                                        !.extFiles = TreeDelete(@, extentId)],
                            rest, delIdxOff + 8,
                            IF extentId \in DOMAIN s.extFiles
                            THEN Append(removed, extentId) ELSE removed)

StoreFlushDelete(s) ==
    LET delIdxOff == Uint64(ReadAt(s.metaFile, ExtMetaDeleteIdxSize, ExtMetaDeleteIdxOffset))
        readBuf == SubSeq(s.deleteFile, delIdxOff + 1, Len(s.deleteFile))
        r == flushLoop(s, readBuf, delIdxOff, <<>>)
    IN  [s |-> [r.s EXCEPT !.metaFile =
                    WriteAt(@, PutUint64(r.delIdxOff), ExtMetaDeleteIdxOffset)],
         removed |-> r.removed, err |-> "nil"]

\* initBaseFileId: the scan of dataDir at NewExtentStore
initBaseFileId(s) ==
    LET ids == {id \in DOMAIN s.extFiles : id >= MinExtentId}
        baseFileId == Uint64(ReadAt(s.metaFile, ExtMetaBaseIdSize, ExtMetaBaseIdOffset))
        seen == {id \in ids : ~IsTinyExtent(id)} \cup {baseFileId, MinExtentId}
    IN  [s EXCEPT !.extentInfoMap = [id \in ids |-> FromExtent(s.extFiles[id], FALSE)],
                  !.baseExtentId = CHOOSE m \in seen : \A x \in seen : x <= m]

\* NewExtentStore on dataDir: a fresh extentInfoMap and cache over the files
NewExtentStore(s) ==
    initBaseFileId([s EXCEPT !.cache = {}, !.extentInfoMap = EmptyTree])


\* ------------------------------------------------------------------------
\* The ExtentStore as a state machine
\* ------------------------------------------------------------------------
Zeros(n) == [i \in 1..n |-> 0]

\* NewExtentStore on an empty directory
InitStore ==
    /\ extFiles = EmptyTree
    /\ extentInfoMap = EmptyTree
    /\ cache = {}
    /\ baseExtentId = MinExtentId
    /\ metaFile = Zeros(ExtMetaFileSize)
    /\ deleteFile = <<>>
    /\ allocated = <<>>
    /\ unlinked = <<>>
    /\ storeOp = [op |-> "NewExtentStore", id |-> 0, err |-> "nil"]

SetStore(s) ==
    /\ extFiles' = s.extFiles
    /\ extentInfoMap' = s.extentInfoMap
    /\ cache' = s.cache
    /\ baseExtentId' = s.baseExtentId
    /\ metaFile' = s.metaFile
    /\ deleteFile' = s.deleteFile

NextExtentId ==
    /\ baseExtentId < MaxExtentId
    /\ Len(allocated) < MaxAlloc
    /\ baseExtentId' = baseExtentId + 1
    /\ allocated' = Append(allocated, baseExtentId + 1)
    /\ storeOp' = [op |-> "NextExtentId", id |-> baseExtentId + 1, err |-> "nil"]
    /\ UNCHANGED <<extFiles, extentInfoMap, cache, metaFile, deleteFile, unlinked>>

Create(id, ino, overwrite) ==
    LET r == StoreCreate(Store, id, ino, overwrite) IN
    /\ SetStore(r.s)
    /\ storeOp' = [op |-> "Create", id |-> id, err |-> r.err]
    /\ UNCHANGED <<allocated, unlinked>>

Write(id, offset, size) ==
    LET r == StoreWrite(Store, id, offset, size) IN
    /\ SetStore(r.s)
    /\ storeOp' = [op |-> "Write", id |-> id, err |-> r.err]
    /\ UNCHANGED <<allocated, unlinked>>

Read(id, offset, size) ==
    LET r == StoreRead(Store, id, offset, size) IN
    /\ SetStore(r.s)
    /\ storeOp' = [op |-> "Read", id |-> id, err |-> r.err]
    /\ UNCHANGED <<allocated, unlinked>>

MarkDelete(id) ==
    /\ Len(deleteFile) < 8 * MaxDelete
    /\ LET r == StoreMarkDelete(Store, id) IN
          /\ SetStore(r.s)
          /\ storeOp' = [op |-> "MarkDelete", id |-> id, err |-> r.err]
    /\ UNCHANGED <<allocated, unlinked>>

FlushDelete ==
    LET r == StoreFlushDelete(Store) IN
    /\ SetStore(r.s)
    /\ unlinked' = unlinked \o r.removed
    /\ storeOp' = [op |-> "FlushDelete", id |-> 0, err |-> r.err]
    /\ UNCHANGED allocated

\* the process ends and the store is opened again on the same directory
Reopen ==
    /\ SetStore(NewExtentStore(Store))
    /\ storeOp' = [op |-> "NewExtentStore", id |-> 0, err |-> "nil"]
    /\ UNCHANGED <<allocated, unlinked>>

\* ------------------------------------------------------------------------
\* The replication pipeline at the leader (datanode MessageHandler)
\* ------------------------------------------------------------------------
MaxReq == 3

FieldValues == {0, 1}

\* the fields of a Packet that a reply is compared on, and Size
PacketOf(req, pid, fid, off, crc, size) ==
    [ReqID |-> req, PartitionID |-> pid, FileID |-> fid, Offset |-> off, Crc |-> crc,
     Size |-> size]

\* a request in sentList: the packet, whether PackErrorBody has marked it
\* failed, and whether forceDestoryAllConnect has closed its follower connections
RequestOf(req) ==
    [pkt |-> PacketOf(req, 0, 0, 0, 0, 0), failed |-> FALSE, connsClosed |-> FALSE]

Replies ==
    {PacketOf(req, pid, fid, off, crc, size) :
        req \in 1..MaxReq, pid \in FieldValues, fid \in FieldValues, off \in FieldValues,
        crc \in FieldValues, size \in FieldValues}

\* checkReplyAvail: only the front request is looked at, and only its ReqID
checkReplyAvail(list, reply) ==
    IF list = <<>> THEN "nil"
    ELSE IF reply.ReqID = Head(list).pkt.ReqID THEN "nil" ELSE "ErrCheckReplyAvail"

\* the comparison of DelListElement
replyDiffers(reply, request) ==
    \/ reply.ReqID # request.ReqID
    \/ reply.PartitionID # request.PartitionID
    \/ reply.Offset # request.Offset
    \/ reply.Crc # request.Crc
    \/ reply.FileID # request.FileID

\* DelListElement: the front request is failed and left in the list when the
\* reply differs from it; otherwise it is removed and the reply is sent on
\* replyCh (a removed element has no Next, so the loop ends there)
DelListElement(list, ch, reply) ==
    IF list = <<>> THEN [sentList |-> list, replyCh |-> ch, success |-> FALSE]
    ELSE IF replyDiffers(reply, Head(list).pkt)
         THEN [sentList |-> <<[Head(list) EXCEPT !.failed = TRUE, !.connsClosed = TRUE]>>
                                \o Tail(list),
               replyCh |-> ch, success |-> FALSE]
         ELSE [sentList |-> Tail(list), replyCh |-> Append(ch, reply), success |-> TRUE]

NoReply == PacketOf(0, 0, 0, 0, 0, 0)

\* NewMsgHandler
InitPipe ==
    /\ sentList = <<>>
    /\ replyCh = <<>>
    /\ reqSeq = 0
    /\ pipeOp = [op |-> "NewMsgHandler", reply |-> NoReply, success |-> FALSE, err |-> "nil"]

\* the leader sends the next packet to the followers
PushListElement ==
    /\ reqSeq < MaxReq
    /\ reqSeq' = reqSeq + 1
    /\ sentList' = Append(sentList, RequestOf(reqSeq + 1))
    /\ pipeOp' = [op |-> "PushListElement", reply |-> NoReply, success |-> FALSE,
                  err |-> "nil"]
    /\ UNCHANGED replyCh

\* a reply read from a follower is checked against the list
CheckReplyAvail(reply) ==
    /\ pipeOp' = [op |-> "checkReplyAvail", reply |-> reply, success |-> FALSE,
                  err |-> checkReplyAvail(sentList, reply)]
    /\ UNCHANGED <<sentList, replyCh, reqSeq>>

\* a reply read from a follower is matched with the list
DelElement(reply) ==
    LET res == DelListElement(sentList, replyCh, reply) IN
    /\ sentList' = res.sentList
    /\ replyCh' = res.replyCh
    /\ pipeOp' = [op |-> "DelListElement", reply |-> reply, success |-> res.success,
                  err |-> "nil"]
    /\ UNCHANGED reqSeq

\* the consumer of replyCh takes the oldest acknowledgement
TakeReply ==
    /\ replyCh # <<>>
    /\ replyCh' = Tail(replyCh)
    /\ pipeOp' = [op |-> "TakeReply", reply |-> Head(replyCh), success |-> FALSE,
                  err |-> "nil"]
    /\ UNCHANGED <<sentList, reqSeq>>

\* ClearReqs: every request's connections are closed, the channel is drained
\* and the list replaced by an empty one
ClearReqs ==
    /\ sentList' = <<>>
    /\ replyCh' = <<>>
    /\ pipeOp' = [op |-> "ClearReqs", reply |-> NoReply, success |-> FALSE, err |-> "nil"]
    /\ UNCHANGED reqSeq

\* ------------------------------------------------------------------------
\* One normal extent with its bytes and per-block CRCs (fsExtent)
\* ------------------------------------------------------------------------
\* the extent in small: blocks of SmallBlockSize bytes, SmallBlockCount of them
SmallBlockSize == 2
SmallBlockCount == 3

ByteValues == {0, 170}

\* crc32.ChecksumIEEE, on a register of 32 bits held as the set of the
\* positions of its one bits (bit 0 the lowest); CrcPoly holds the bits of the
\* reflected polynomial 0xEDB88320
CrcPoly == {31, 30, 29, 27, 26, 24, 23, 21, 20, 19, 15, 9, 8, 5}

BitXor(a, b) == {i \in 0..31 : (i \in a) # (i \in b)}

ByteBits(b) == {i \in 0..7 : (b \div (2 ^ i)) % 2 = 1}

crcShift(reg) ==
    LET sh == {i - 1 : i \in reg \ {0}} IN
    IF 0 \in reg THEN BitXor(sh, CrcPoly) ELSE sh

RECURSIVE crcShifts(_, _)
crcShifts(reg, n) == IF n = 0 THEN reg ELSE crcShifts(crcShift(reg), n - 1)

crcByte(reg, b) == crcShifts(BitXor(reg, ByteBits(b)), 8)

RECURSIVE crcUpdate(_, _)
crcUpdate(reg, data) ==
    IF data = <<>> THEN reg ELSE crcUpdate(crcByte(reg, Head(data)), Tail(data))

RECURSIVE BitsValue(_, _, _)
BitsValue(reg, lo, n) ==
    IF n = 0 THEN 0 ELSE (IF lo \in reg THEN 1 ELSE 0) + 2 * BitsValue(reg, lo + 1, n - 1)

\* the checksum as the 4 bytes binary.BigEndian.PutUint32 writes for it
crc32Update(data) ==
    LET out == (0..31) \ crcUpdate(0..31, data)
    IN  <<BitsValue(out, 24, 8), BitsValue(out, 16, 8), BitsValue(out, 8, 8),
          BitsValue(out, 0, 8)>>

\* the byte strings the extent in small can hold in a block or take in a write
ByteStrings == UNION {[1..n -> ByteValues] : n \in 0..(SmallBlockSize + 1)}

\* the checksums of these strings, computed once
ieeeTable == [data \in ByteStrings |-> crc32Update(data)] @@ <<>>

ChecksumIEEE(data) == ieeeTable[data]

\* file.WriteAt(b, off) past the header: the file grows as needed, bytes
\* never written read as zero
BodyWriteAt(body, b, off) ==
    [i \in 1..Max(Len(body), off + Len(b)) |->
        IF i > off /\ i <= off + Len(b) THEN b[i - off]
        ELSE IF i <= Len(body) THEN body[i] ELSE 0]

\* file.ReadAt(buffer of n bytes, off) past the header: the bytes read
BodyReadAt(body, n, off) ==
    IF off >= Len(body) THEN <<>>
    ELSE SubSeq(body, off + 1, IF off + n > Len(body) THEN Len(body) ELSE off + n)

\* the fsExtent as a record, for the operators below
Extent == [body |-> fsBody, crc |-> fsCrc, dataSize |-> fsDataSize]

checkOffsetAndSize(offset, size) ==
    IF offset + size > SmallBlockSize * SmallBlockCount THEN "ParamMismatch"
    ELSE IF offset >= SmallBlockCount * SmallBlockSize \/ size = 0 THEN "ParamMismatch"
    ELSE IF size > SmallBlockSize THEN "ParamMismatch"
    ELSE "nil"

updateBlockCrc(e, blockNo, crc) == [e EXCEPT !.crc[blockNo] = crc]

\* InitToFS: the header carries the CRC of an all-zero block for every block
InitToFS ==
    [body |-> <<>>,
     crc |-> [blockNo \in 0..(SmallBlockCount - 1) |->
                 ChecksumIEEE([i \in 1..SmallBlockSize |-> 0])],
     dataSize |-> 0]

\* the loop of Write that reads back every block touched and stores its CRC
RECURSIVE crcLoop(_, _, _)
crcLoop(e, blockNo, remainCheckByteCnt) ==
    IF remainCheckByteCnt <= 0 THEN e
    ELSE LET blockBuffer == BodyReadAt(e.body, SmallBlockSize, blockNo * SmallBlockSize)
             readN == Len(blockBuffer)
         IN  IF readN = 0 THEN e
             ELSE LET e1 == updateBlockCrc(e, blockNo, ChecksumIEEE(blockBuffer)) IN
                  IF readN < SmallBlockSize THEN e1
                  ELSE crcLoop(e1, blockNo + 1, remainCheckByteCnt - readN)

\* fsExtent.Write(data, offset, size, crc) with size = len(data)
extentWrite(e, data, offset, crc) ==
    LET size == Len(data) IN
    IF checkOffsetAndSize(offset, size) # "nil" THEN [e |-> e, err |-> "ParamMismatch"]
    ELSE LET blockNo == offset \div SmallBlockSize
             offsetInBlock == offset % SmallBlockSize
             e1 == [e EXCEPT !.body = BodyWriteAt(e.body, data, offset),
                             !.dataSize = Max(e.dataSize, offset + size)]
         IN  IF offsetInBlock = 0 /\ size = SmallBlockSize
             THEN [e |-> updateBlockCrc(e1, blockNo, crc), err |-> "nil"]
             ELSE [e |-> crcLoop(e1, blockNo, offsetInBlock + size), err |-> "nil"]

\* fsExtent.Read(data, offset, size) with size = len(data)
extentRead(e, offset, size) ==
    IF checkOffsetAndSize(offset, size) # "nil" THEN [crc |-> <<>>, err |-> "ParamMismatch"]
    ELSE IF Len(BodyReadAt(e.body, size, offset)) < size THEN [crc |-> <<>>, err |-> "EOF"]
    ELSE [crc |-> ChecksumIEEE(BodyReadAt(e.body, size, offset)), err |-> "nil"]

SetExtent(e) ==
    /\ fsBody' = e.body
    /\ fsCrc' = e.crc
    /\ fsDataSize' = e.dataSize

InitExtent ==
    /\ fsBody = InitToFS.body
    /\ fsCrc = InitToFS.crc
    /\ fsDataSize = InitToFS.dataSize
    /\ fsOp = [op |-> "InitToFS", offset |-> 0, crc |-> <<>>, err |-> "nil"]

\* the data of a write: one byte up to one byte more than a block
WriteData == UNION {[1..n -> ByteValues] : n \in 1..(SmallBlockSize + 1)}

\* a client writes data at offset and sends the checksum of its data
ExtentWrite(data, offset) ==
    LET r == extentWrite(Extent, data, offset, ChecksumIEEE(data)) IN
    /\ SetExtent(r.e)
    /\ fsOp' = [op |-> "Write", offset |-> offset, crc |-> ChecksumIEEE(data), err |-> r.err]

ExtentRead(offset, size) ==
    LET r == extentRead(Extent, offset, size) IN
    /\ fsOp' = [op |-> "Read", offset |-> offset, crc |-> r.crc, err |-> r.err]
    /\ UNCHANGED <<fsBody, fsCrc, fsDataSize>>

NextExtent ==
    \/ \E data \in WriteData, offset \in 0..(SmallBlockSize * SmallBlockCount) :
          ExtentWrite(data, offset) /\ UNCHANGED notExtent
    \/ \E offset \in 0..(SmallBlockSize * SmallBlockCount), size \in 0..SmallBlockSize :
          ExtentRead(offset, size) /\ UNCHANGED notExtent

\* ------------------------------------------------------------------------
\* Specifications
\* ------------------------------------------------------------------------
\* a new store: the base extent id is MinExtentId in memory and in META
InitCreate ==
    /\ ccBase = MinExtentId
    /\ ccMeta = PutUint64(MinExtentId)
    /\ ccPc = [c \in Creators |-> "idle"]
    /\ ccId = [c \in Creators |-> 0]
    /\ ccBytes = [c \in Creators |-> <<>>]
    /\ ccCreated = {}

InitRest == InitTiny /\ InitPunch /\ InitSnap /\ InitMgr /\ InitMaster /\ InitCursor /\ InitAudit /\ InitTear /\ InitStop /\ InitApplySnap /\ InitCreate /\ InitLife /\ InitPool /\ InitPut

Init == InitMeta /\ InitStore /\ InitPipe /\ InitAlloc /\ InitExtent /\ InitRest

\* the replicated state machine under arbitrary client commands
NextFsm ==
    \/ \E cmd \in FsmCmds : Submit(cmd, MaxLog) /\ UNCHANGED notMeta
    \/ \E r \in Replica : ApplyEntry(r) /\ UNCHANGED <<issueGhosts, notMeta>>
    \/ \E r \in Replica : ApplyConfChange(r) /\ UNCHANGED notMeta
    \/ \E r, d \in Replica : InstallSnapshot(r, d) /\ UNCHANGED notMeta
    \/ \E l \in Replica : LeaderChange(l, {TRUE}) /\ UNCHANGED notMeta
    \/ \E r \in Replica : NextInodeID(r) /\ UNCHANGED notMeta
    \/ \E r \in Replica : InitInode(r, MaxLog) /\ UNCHANGED notMeta

SpecFsm == Init /\ [][NextFsm]_vars

\* one ExtentStore and its callers
\* the first and the last byte of an extent; no bytes, one byte, a whole
\* block and one byte more than a block
WriteOffsets == {0, BlockSize * BlockCount - 1}
WriteSizes == {0, 1, BlockSize, BlockSize + 1}

NextStore ==
    \/ NextExtentId /\ UNCHANGED notStore
    \/ \E id \in ExtentIds, ino \in StoreInodes, ow \in BOOLEAN :
          Create(id, ino, ow) /\ UNCHANGED notStore
    \/ \E id \in ExtentIds, offset \in WriteOffsets, size \in WriteSizes :
          Write(id, offset, size) /\ UNCHANGED notStore
    \/ \E id \in ExtentIds : Read(id, 0, 1) /\ UNCHANGED notStore
    \/ \E id \in ExtentIds : MarkDelete(id) /\ UNCHANGED notStore
    \/ FlushDelete /\ UNCHANGED notStore
    \/ Reopen /\ UNCHANGED notStore

SpecStore == Init /\ [][NextStore]_vars


\* ------------------------------------------------------------------------
\* The free list at work: one regular inode that owns every ExtentKey and
\* has been unlinked
\* ------------------------------------------------------------------------
MaxOps == 2        \* entries the log may take after those of FreeLog

FreeInode == PartitionStart + 1

\* the log that created the inode, appended its ExtentKeys and unlinked it
FreeLog ==
    <<CmdCreateInode(FreeInode, ModeRegular)>>
    \o [k \in 1..MaxKey |-> CmdExtentsAdd(FreeInode, k)]
    \o <<CmdDeleteInode(FreeInode)>>

FreeCap == Len(FreeLog) + MaxOps

\* the partition after raft handed it the first n entries of log
RECURSIVE ApplyAll(_, _, _)
ApplyAll(m, log, n) ==
    IF n = 0 THEN m ELSE Apply(ApplyAll(m, log, n - 1), log[n], n).mp

FreeCmds == {CmdDeleteInode(FreeInode), CmdEvictInode(FreeInode)}

\* every replica has applied FreeLog; leader is the elected replica (0: none)
InitFreeWith(leader) ==
    /\ raftLog = FreeLog
    /\ raftApplied = [r \in Replica |-> Len(FreeLog)]
    /\ raftLeader = leader
    /\ mp = [r \in Replica |-> ApplyAll(NewMetaPartition, FreeLog, Len(FreeLog))]
    /\ storeTick = [r \in Replica |-> r = leader]
    /\ initInodeQ = [r \in Replica |-> {}]
    /\ snapCount = 0
    /\ origin = [r \in Replica |-> "log"]
    /\ accepted = {}
    /\ batchKeys = {}
    /\ evictedKeys = {}
    /\ failedKeys = {}
    /\ attemptFlip = [k \in Keys |-> FALSE]
    /\ InitStore
    /\ InitPipe
    /\ InitAlloc
    /\ InitExtent
    /\ InitRest

InitFree == InitFreeWith(0)

NextFree ==
    \/ \E cmd \in FreeCmds : Submit(cmd, FreeCap) /\ UNCHANGED notMeta
    \/ \E r \in Replica : ApplyEntry(r) /\ UNCHANGED <<issueGhosts, notMeta>>
    \/ \E l \in Replica : LeaderChange(l, {TRUE}) /\ UNCHANGED notMeta
    \/ \E r \in Replica : \E out \in [Keys -> Outcomes] :
          /\ DeleteWorker(r, FreeCap, out)
          /\ TrackBatch(r, FreeCap, out)
          /\ UNCHANGED <<issueGhosts, notMeta>>
    \/ \E r \in Replica : CheckFreelistWorker(r) /\ UNCHANGED notMeta

SpecFree == InitFree /\ [][NextFree]_vars

\* the same with a leader that stays leader and a deleteWorker that is
\* scheduled again and again (its loop sleeps AsyncDeleteInterval and goes on)
StableLeader == SetMin(Replica)

LeaderDeleteWorker ==
    \E out \in [Keys -> Outcomes] :
        /\ DeleteWorker(StableLeader, FreeCap, out)
        /\ TrackIssue(StableLeader, FreeCap, out)
        /\ UNCHANGED <<batchGhosts, notMeta>>

NextFreeLive ==
    \/ \E cmd \in FreeCmds : Submit(cmd, FreeCap) /\ UNCHANGED notMeta
    \/ \E r \in Replica : ApplyEntry(r) /\ TrackEvict(r) /\ UNCHANGED notMeta
    \/ LeaderDeleteWorker
    \/ \E r \in Replica : CheckFreelistWorker(r) /\ UNCHANGED notMeta

\* ENABLED <<LeaderDeleteWorker>>_vars: a pass pops what the free list holds
DeleteWorkerEnabled ==
    raftLeader = StableLeader /\ mp[StableLeader].freeList # <<>>

\* weak fairness of the deleteWorker goroutine, WF_vars(LeaderDeleteWorker),
\* with its ENABLED written out
FairDeleteWorker ==
    []<>(~DeleteWorkerEnabled) \/ []<><<LeaderDeleteWorker>>_vars

SpecFreeLive ==
    InitFreeWith(StableLeader) /\ [][NextFreeLive]_vars /\ FairDeleteWorker

\* ------------------------------------------------------------------------
\* Claims
\* ------------------------------------------------------------------------
\* replicas r1 and r2 reached their state by Apply alone and hold the same
\* prefix of the log
SamePrefix(r1, r2) ==
    /\ raftApplied[r1] = raftApplied[r2]
    /\ origin[r1] # "snap"
    /\ origin[r2] # "snap"

\* C1 as stated: two replicas that applied the same log prefix have the same
\* inode tree, dentry tree, cursor and apply_id, whatever the leader did on
\* its own.
C1_SamePrefixSameState ==
    \A r1, r2 \in Replica :
        SamePrefix(r1, r2) =>
            /\ mp[r1].inodeTree = mp[r2].inodeTree
            /\ mp[r1].dentryTree = mp[r2].dentryTree
            /\ mp[r1].Cursor = mp[r2].Cursor
            /\ mp[r1].applyID = mp[r2].applyID

\* C1 amended: two replicas that applied the same log prefix have the same
\* inode tree, dentry tree and apply_id; their cursors are equal when neither
\* allocated an inode id as leader, and a replica that did allocate is never
\* behind one that did not.
C1_SamePrefixSameTrees ==
    \A r1, r2 \in Replica :
        SamePrefix(r1, r2) =>
            /\ mp[r1].inodeTree = mp[r2].inodeTree
            /\ mp[r1].dentryTree = mp[r2].dentryTree
            /\ mp[r1].applyID = mp[r2].applyID
            /\ (origin[r1] = "log" /\ origin[r2] = "log") => mp[r1].Cursor = mp[r2].Cursor
            /\ origin[r2] = "log" => mp[r1].Cursor >= mp[r2].Cursor

\* a leader that allocated the root id and a follower have both applied the
\* whole log, which created an inode and a dentry
C1_Witness ==
    \E r1, r2 \in Replica :
        /\ SamePrefix(r1, r2)
        /\ raftApplied[r1] = MaxLog
        /\ origin[r1] = "alloc"
        /\ origin[r2] = "log"
        /\ mp[r1].inodeTree # EmptyTree
        /\ mp[r1].dentryTree # EmptyTree

\* C2 as stated: apply_id never goes backwards on any replica, over Apply,
\* ApplyMemberChange and ApplySnapshot.
C2_ApplyIdNeverDecreases ==
    [][\A r \in Replica : mp'[r].applyID >= mp[r].applyID]_vars

\* C3 as stated: the cursor of a replica never decreases, over nextInodeID,
\* Apply and ApplySnapshot.
C3_CursorNeverDecreases ==
    [][\A r \in Replica : mp'[r].Cursor >= mp[r].Cursor]_vars

\* C4 as stated: in every reachable state the cursor of a replica is at most
\* the end of its inode range.
C4_CursorWithinRange ==
    \A r \in Replica : mp[r].Cursor <= mp[r].End


\* C5 as stated: the record of an inode is placed in an OpInternalDeleteInode
\* batch only after MarkDelete was accepted by the owning DataPartition for
\* every one of its ExtentKeys.
C5_BatchOnlyAfterAccepted ==
    batchKeys \subseteq accepted

IsReplay(i) ==
    /\ i > 1
    /\ raftLog[i].Op = "opFSMInternalDeleteInode"
    /\ raftLog[i].Ids # <<>>
    /\ raftLog[i - 1] = raftLog[i]

\* C7: applying an OpInternalDeleteInode command a second time leaves the
\* inode tree, the dentry tree and the cursor unchanged and returns no error.
C7_ReplayIsNoOp ==
    [][\A r \in Replica :
          (raftApplied'[r] = raftApplied[r] + 1 /\ IsReplay(raftApplied[r] + 1)) =>
              /\ mp'[r].inodeTree = mp[r].inodeTree
              /\ mp'[r].dentryTree = mp[r].dentryTree
              /\ mp'[r].Cursor = mp[r].Cursor
              /\ Apply(mp[r], raftLog[raftApplied[r] + 1], raftApplied[r] + 1).err = "nil"]_vars

\* a replica has applied an OpInternalDeleteInode command and its repetition
C7_Witness ==
    \E r \in Replica : \E i \in 1..Len(raftLog) :
        /\ IsReplay(i)
        /\ raftApplied[r] >= i
        /\ FreeInode \notin DOMAIN mp[r].inodeTree

\* record i of EXTENT_DELETE: the extent id stored in its i-th 8 bytes
DeleteRecord(i) == Uint64(SubSeq(deleteFile, 8 * (i - 1) + 1, 8 * i))

\* the delete-log cursor persisted in EXTENT_META
PersistedDeleteIdx ==
    Uint64(ReadAt(metaFile, ExtMetaDeleteIdxSize, ExtMetaDeleteIdxOffset))

\* C8 as stated: base_extent_id is strictly monotonic across restarts: every
\* id returned by NextExtentId is strictly greater than every id it returned
\* before, a reopening of the store in between included.
C8_NextExtentIdStrictlyIncreasing ==
    \A i, j \in 1..Len(allocated) : i < j => allocated[i] < allocated[j]

\* C9 as stated: mark_delete is idempotent: a MarkDelete of an extent whose
\* entry file already carries the tombstone appends no further record to the
\* delete log and changes no other extent.
C9_MarkDeleteIdempotent ==
    [][(/\ storeOp'.op = "MarkDelete"
        /\ storeOp'.id \in DOMAIN extFiles
        /\ extFiles[storeOp'.id].Deleted) =>
            /\ deleteFile' = deleteFile
            /\ \A e \in DOMAIN extFiles \ {storeOp'.id} :
                  e \in DOMAIN extFiles' /\ extFiles'[e] = extFiles[e]]_vars

\* C10 as stated: every extent id recorded in the delete log before the
\* persisted cursor has no entry file left.
C10_FlushedIdsHaveNoFile ==
    \A i \in 1..(PersistedDeleteIdx \div 8) : DeleteRecord(i) \notin DOMAIN extFiles

\* C11: the transition of an extent to Tombstoned is irreversible and a
\* tombstoned extent rejects all writes: while the entry file of a tombstoned
\* extent exists, no step (Write, Create on the same id, re-open of the store)
\* changes the file or removes its tombstone, and every Write to it returns
\* an error.
C11_TombstoneIrreversible ==
    [][\A id \in DOMAIN extFiles :
          extFiles[id].Deleted =>
              /\ id \in DOMAIN extFiles' => extFiles'[id] = extFiles[id]
              /\ (storeOp'.op = "Write" /\ storeOp'.id = id) => storeOp'.err # "nil"]_vars

\* the store was opened again over a tombstoned extent, which is back in
\* extentInfoMap, and a Write to it was refused with ErrorHasDelete
C11_Witness ==
    /\ storeOp.op = "Write"
    /\ storeOp.err = "ErrorHasDelete"
    /\ storeOp.id \in DOMAIN extentInfoMap
    /\ extFiles[storeOp.id].Deleted

\* C12 as stated: a tombstoned extent permits reads until the store sweeps it:
\* an in-bounds Read of an extent whose entry file exists and carries the
\* tombstone succeeds.
C12_TombstonedReadSucceeds ==
    [][(/\ storeOp'.op = "Read"
        /\ storeOp'.id \in DOMAIN extFiles
        /\ extFiles[storeOp'.id].Deleted
        /\ extFiles[storeOp'.id].Size >= 1) => storeOp'.err = "nil"]_vars

\* ------------------------------------------------------------------------
\* Dentries at work: the root directory holds two names that refer to two
\* inodes, and clients create, update and delete dentries
\* ------------------------------------------------------------------------
DentryNames == {"a", "b"}

\* the log that created the root inode and the dentries a and b
DentryLog ==
    <<CmdCreateInode(PartitionStart + 1, ModeDir),
      CmdDentry("opCreateDentry", "a", PartitionStart + 1, ModeRegular),
      CmdDentry("opCreateDentry", "b", PartitionStart + 2, ModeRegular)>>

DentryCap == Len(DentryLog) + MaxOps

DentryCmds ==
    {CmdDentry("opCreateDentry", n, i, ModeRegular) : n \in DentryNames, i \in InodeIds}
    \cup {CmdUpdateDentry(n, i) : n \in DentryNames, i \in InodeIds}
    \cup {CmdDentry("opDeleteDentry", n, 0, ModeRegular) : n \in DentryNames}

\* every replica has applied DentryLog under the leader that seeded the root
InitDentry ==
    /\ raftLog = DentryLog
    /\ raftApplied = [r \in Replica |-> Len(DentryLog)]
    /\ raftLeader = StableLeader
    /\ mp = [r \in Replica |-> ApplyAll(NewMetaPartition, DentryLog, Len(DentryLog))]
    /\ storeTick = [r \in Replica |-> r = StableLeader]
    /\ initInodeQ = [r \in Replica |-> {}]
    /\ snapCount = 0
    /\ origin = [r \in Replica |-> IF r = StableLeader THEN "alloc" ELSE "log"]
    /\ accepted = {}
    /\ batchKeys = {}
    /\ evictedKeys = {}
    /\ failedKeys = {}
    /\ attemptFlip = [k \in Keys |-> FALSE]
    /\ InitStore
    /\ InitPipe
    /\ InitAlloc
    /\ InitExtent
    /\ InitRest

NextDentry ==
    \/ \E cmd \in DentryCmds : Submit(cmd, DentryCap) /\ UNCHANGED notMeta
    \/ \E r \in Replica : ApplyEntry(r) /\ UNCHANGED <<issueGhosts, notMeta>>

SpecDentry == InitDentry /\ [][NextDentry]_vars

\* replica r applies in this step a command of kind op
AppliesOp(r, op) ==
    /\ raftApplied[r] < Len(raftLog)
    /\ raftApplied'[r] = raftApplied[r] + 1
    /\ raftLog[raftApplied[r] + 1].Op = op

\* the dentry carried by the command replica r applies next
NextDentryOf(r) == DentryOf(raftLog[raftApplied[r] + 1])

\* C13 as stated: UpdateDentry swaps inode numbers atomically: after an
\* UpdateDentry no lookup observes the updated name and another name
\* referring to the same inode.
C13_NoTwoNamesSameInode ==
    [][\A r \in Replica :
          (AppliesOp(r, "opUpdateDentry") /\ DentryKey(NextDentryOf(r)) \in DOMAIN mp[r].dentryTree) =>
              \A k \in DOMAIN mp'[r].dentryTree \ {DentryKey(NextDentryOf(r))} :
                  mp'[r].dentryTree[k].Inode # mp'[r].dentryTree[DentryKey(NextDentryOf(r))].Inode]_vars

\* C13 amended: UpdateDentry exchanges, in one step, the inode number of the
\* stored dentry with that of the request: the set of names is unchanged, the
\* stored dentry holds the requested number, the request holds the previous
\* one, and a name that referred to the requested inode before still refers
\* to it (so the updated name and that name then refer to the same inode).
C13_UpdateExchangesWithRequest ==
    [][\A r \in Replica :
          (AppliesOp(r, "opUpdateDentry") /\ DentryKey(NextDentryOf(r)) \in DOMAIN mp[r].dentryTree) =>
              LET dentry == NextDentryOf(r)
                  key == DentryKey(dentry)
              IN  /\ DOMAIN mp'[r].dentryTree = DOMAIN mp[r].dentryTree
                  /\ mp'[r].dentryTree[key].Inode = dentry.Inode
                  /\ updateDentry(mp[r], dentry).msg.Inode = mp[r].dentryTree[key].Inode
                  /\ \A k \in DOMAIN mp[r].dentryTree :
                        mp[r].dentryTree[k].Inode = dentry.Inode =>
                            mp'[r].dentryTree[k].Inode = dentry.Inode]_vars

\* a replica applied, right after DentryLog, an UpdateDentry of one name to
\* the inode of the other: both names now refer to the same inode
C13_Witness ==
    \E r \in Replica :
        /\ raftApplied[r] = Len(DentryLog) + 1
        /\ raftLog[raftApplied[r]].Op = "opUpdateDentry"
        /\ mp[r].dentryTree[<<1, "a">>].Inode = mp[r].dentryTree[<<1, "b">>].Inode

\* C14: UpdateDentry(parent, name, new_inode) on an existing dentry sets its
\* inode number to new_inode and returns the previous one, and leaves every
\* other dentry (one that refers to new_inode included) and the inode tree
\* unchanged; on a missing dentry it returns NotExist and creates nothing.
C14_UpdateDentrySetsInode ==
    [][\A r \in Replica :
          AppliesOp(r, "opUpdateDentry") =>
              LET dentry == NextDentryOf(r)
                  key == DentryKey(dentry)
                  old == mp[r].dentryTree
                  new == mp'[r].dentryTree
                  resp == updateDentry(mp[r], dentry)
              IN  /\ mp'[r].inodeTree = mp[r].inodeTree
                  /\ IF key \in DOMAIN old
                     THEN /\ resp.status = OpOk
                          /\ resp.msg.Inode = old[key].Inode
                          /\ new = [old EXCEPT ![key].Inode = dentry.Inode]
                     ELSE /\ resp.status = OpNotExistErr
                          /\ new = old]_vars

\* a replica applied, right after DentryLog, UpdateDentry(1, "b", 1): the
\* lookup of b yields inode 1 and a, which referred to inode 1 already, is
\* as it was
C14_Witness ==
    \E r \in Replica :
        /\ raftApplied[r] = Len(DentryLog) + 1
        /\ raftLog[raftApplied[r]] = CmdUpdateDentry("b", PartitionStart + 1)
        /\ mp[r].dentryTree[<<1, "b">>].Inode = PartitionStart + 1
        /\ mp[r].dentryTree[<<1, "a">>].Inode = PartitionStart + 1

\* ------------------------------------------------------------------------
\* The replication pipeline under arbitrary follower replies
\* ------------------------------------------------------------------------
NextPipe ==
    \/ PushListElement /\ UNCHANGED notPipe
    \/ \E reply \in Replies : CheckReplyAvail(reply) /\ UNCHANGED notPipe
    \/ \E reply \in Replies : DelElement(reply) /\ UNCHANGED notPipe
    \/ TakeReply /\ UNCHANGED notPipe
    \/ ClearReqs /\ UNCHANGED notPipe

SpecPipe == Init /\ [][NextPipe]_vars

\* the reply equals the request in all six fields
SameSixFields(reply, request) ==
    /\ reply.ReqID = request.ReqID
    /\ reply.PartitionID = request.PartitionID
    /\ reply.FileID = request.FileID
    /\ reply.Offset = request.Offset
    /\ reply.Crc = request.Crc
    /\ reply.Size = request.Size

\* C15: a reply acknowledges the outstanding packet only if its req_id,
\* partition_id, extent_id, offset, crc and size all equal the packet's; a
\* reply that differs in any of them fails the packet, closes the follower's
\* connections and leaves the packet in sent_list, unacknowledged
C15_AckOnlyOnSixFieldMatch ==
    [][(pipeOp'.op = "DelListElement" /\ sentList # <<>>) =>
          IF SameSixFields(pipeOp'.reply, Head(sentList).pkt)
          THEN TRUE
          ELSE /\ ~pipeOp'.success
               /\ replyCh' = replyCh
               /\ Len(sentList') = Len(sentList)
               /\ Head(sentList').pkt = Head(sentList).pkt
               /\ Head(sentList').failed
               /\ Head(sentList').connsClosed]_vars

\* ------------------------------------------------------------------------
\* Inode id allocation at the end of the range, under range updates
\* ------------------------------------------------------------------------
MaxRange == 3

AllocStart == PartitionStart + 1
AllocEnd == AllocStart + MaxRange
AllocCap == MaxOps

\* a partition loaded with the range (AllocStart, AllocEnd] and nothing allocated
InitAllocRange ==
    /\ raftLog = <<>>
    /\ raftApplied = [r \in Replica |-> 0]
    /\ raftLeader = StableLeader
    /\ mp = [r \in Replica |->
                [NewMetaPartition EXCEPT !.Start = AllocStart, !.End = AllocEnd,
                                         !.Cursor = AllocStart]]
    /\ storeTick = [r \in Replica |-> r = StableLeader]
    /\ initInodeQ = [r \in Replica |-> {}]
    /\ snapCount = 0
    /\ origin = [r \in Replica |-> "log"]
    /\ accepted = {}
    /\ batchKeys = {}
    /\ evictedKeys = {}
    /\ failedKeys = {}
    /\ attemptFlip = [k \in Keys |-> FALSE]
    /\ InitStore
    /\ InitPipe
    /\ InitAlloc
    /\ InitExtent
    /\ InitRest

\* UpdatePartition: the range update is submitted to raft
UpdatePartition(end) ==
    /\ Submit(CmdUpdatePartition(end), AllocCap)
    /\ allocOp' = [op |-> "UpdatePartition", r |-> raftLeader, inodeId |-> 0, err |-> "nil"]
    /\ UNCHANGED allocFailed

\* replica r applies the next entry; a failed allocation is remembered as
\* long as the range updates only lower End
ApplyRangeUpdate(r) ==
    /\ ApplyEntry(r)
    /\ allocOp' = [op |-> "Apply", r |-> r, inodeId |-> 0, err |-> "nil"]
    /\ allocFailed' =
          [allocFailed EXCEPT ![r] =
              IF Apply(mp[r], raftLog[raftApplied[r] + 1], raftApplied[r] + 1).mp.End < mp[r].End
              THEN (IF @ = "no" THEN "no" ELSE "lowered")
              ELSE "no"]

\* the leader allocates an inode id
AllocInodeID(r) ==
    /\ NextInodeID(r)
    /\ allocOp' = [op |-> "nextInodeID", r |-> r, inodeId |-> nextInodeID(mp[r]).inodeId,
                   err |-> nextInodeID(mp[r]).err]
    /\ allocFailed' =
          [allocFailed EXCEPT ![r] =
              IF nextInodeID(mp[r]).err = "nil" THEN "no"
              ELSE IF @ = "no" THEN "failed" ELSE @]

NextAlloc ==
    \/ \E end \in AllocStart..AllocEnd : UpdatePartition(end) /\ UNCHANGED <<storeVars, pipeVars, extentVars, restVars>>
    \/ \E r \in Replica : ApplyRangeUpdate(r) /\ UNCHANGED <<issueGhosts, storeVars, pipeVars, extentVars, restVars>>
    \/ \E r \in Replica : AllocInodeID(r) /\ UNCHANGED <<storeVars, pipeVars, extentVars, restVars>>

SpecAlloc == InitAllocRange /\ [][NextAlloc]_vars

\* C16: nextInodeID returns Cursor + 1 and advances Cursor by one when
\* Cursor < End; it fails with ErrInodeIDOutOfRange and leaves Cursor alone when
\* Cursor >= End; after a failure it still fails when range updates have
\* lowered End
C16_NextInodeIDAtRangeEnd ==
    [][allocOp'.op = "nextInodeID" =>
          LET r == allocOp'.r IN
          /\ IF mp[r].Cursor < mp[r].End
             THEN /\ allocOp'.err = "nil"
                  /\ allocOp'.inodeId = mp[r].Cursor + 1
                  /\ mp'[r].Cursor = mp[r].Cursor + 1
             ELSE /\ allocOp'.err = "ErrInodeIDOutOfRange"
                  /\ mp'[r].Cursor = mp[r].Cursor
          /\ allocFailed[r] = "lowered" => allocOp'.err = "ErrInodeIDOutOfRange"]_vars

\* the leader's allocation failed at the end of the range, a range update
\* lowered End, and the next allocation has failed again
C16_Witness ==
    /\ allocOp.op = "nextInodeID"
    /\ allocOp.err = "ErrInodeIDOutOfRange"
    /\ allocFailed[allocOp.r] = "lowered"
    /\ mp[allocOp.r].End < AllocEnd
    /\ mp[allocOp.r].Cursor = AllocEnd

\* ------------------------------------------------------------------------
\* Creates and truncates of a regular file, with allocation and leader change
\* ------------------------------------------------------------------------
TruncLog == <<CmdCreateInode(PartitionStart + 1, ModeRegular)>>
TruncCap == Len(TruncLog) + MaxOps

\* a first partition whose range leaves ids to allocate
TruncPartition == [NewMetaPartition EXCEPT !.End = AllocEnd]

TruncCmds ==
    {CmdCreateInode(i, ModeRegular) : i \in InodeIds}
    \cup {CmdExtentTruncate(i, gen, target) :
            i \in InodeIds, gen \in 1..MaxOps, target \in InodeIds}

InitTrunc ==
    /\ raftLog = TruncLog
    /\ raftApplied = [r \in Replica |-> Len(TruncLog)]
    /\ raftLeader = StableLeader
    /\ mp = [r \in Replica |-> ApplyAll(TruncPartition, TruncLog, Len(TruncLog))]
    /\ storeTick = [r \in Replica |-> r = StableLeader]
    /\ initInodeQ = [r \in Replica |-> {}]
    /\ snapCount = 0
    /\ origin = [r \in Replica |-> IF r = StableLeader THEN "alloc" ELSE "log"]
    /\ accepted = {}
    /\ batchKeys = {}
    /\ evictedKeys = {}
    /\ failedKeys = {}
    /\ attemptFlip = [k \in Keys |-> FALSE]
    /\ InitStore
    /\ InitPipe
    /\ InitAlloc
    /\ InitExtent
    /\ InitRest

NextTrunc ==
    \/ \E cmd \in TruncCmds : Submit(cmd, TruncCap) /\ UNCHANGED notMeta
    \/ \E r \in Replica : ApplyEntry(r) /\ UNCHANGED <<issueGhosts, notMeta>>
    \/ \E r \in Replica : NextInodeID(r) /\ UNCHANGED notMeta
    \/ \E l \in Replica : LeaderChange(l, {TRUE}) /\ UNCHANGED notMeta

SpecTrunc == InitTrunc /\ [][NextTrunc]_vars

\* C17: on every replica Cursor is greater than or equal to every inode id in
\* the replica's inode tree
C17_CursorCoversInodeTree ==
    \A r \in Replica : \A id \in DOMAIN mp[r].inodeTree : mp[r].Cursor >= id

\* ------------------------------------------------------------------------
\* Extent appends to a regular file that may be unlinked and evicted
\* ------------------------------------------------------------------------
\* the logs that created the inode, and then unlinked and evicted it
AppendLog == <<CmdCreateInode(PartitionStart + 1, ModeRegular)>>
AppendLogs ==
    {AppendLog,
     AppendLog \o <<CmdDeleteInode(PartitionStart + 1), CmdEvictInode(PartitionStart + 1)>>}

AppendExts == {<<1>>, <<1, 2>>, <<2, 1>>}
AppendTimes == {1, 2}

AppendCmds ==
    {CmdAppendExtents(i, exts, t) : i \in InodeIds, exts \in AppendExts, t \in AppendTimes}

InitAppend ==
    /\ raftLog \in AppendLogs
    /\ raftApplied = [r \in Replica |-> Len(raftLog)]
    /\ raftLeader = StableLeader
    /\ mp = [r \in Replica |-> ApplyAll(NewMetaPartition, raftLog, Len(raftLog))]
    /\ storeTick = [r \in Replica |-> r = StableLeader]
    /\ initInodeQ = [r \in Replica |-> {}]
    /\ snapCount = 0
    /\ origin = [r \in Replica |-> IF r = StableLeader THEN "alloc" ELSE "log"]
    /\ accepted = {}
    /\ batchKeys = {}
    /\ evictedKeys = {}
    /\ failedKeys = {}
    /\ attemptFlip = [k \in Keys |-> FALSE]
    /\ InitStore
    /\ InitPipe
    /\ InitAlloc
    /\ InitExtent
    /\ InitRest

\* the number of appends in the log
AppendsSubmitted == Cardinality({i \in DOMAIN raftLog : raftLog[i].Op = "opExtentsAdd"})

NextAppend ==
    \/ \E cmd \in AppendCmds :
          AppendsSubmitted < MaxOps /\ Submit(cmd, Len(raftLog) + 1) /\ UNCHANGED notMeta
    \/ \E r \in Replica : ApplyEntry(r) /\ UNCHANGED <<issueGhosts, notMeta>>

SpecAppend == InitAppend /\ [][NextAppend]_vars

\* the inode carried by the command replica r applies next
NextInodeOf(r) == InodeOf(raftLog[raftApplied[r] + 1])

\* C20: an extent append to an existing inode that is not mark-deleted puts
\* the request's ExtentKeys after the inode's keys in request order, adds one
\* to Generation and sets ModifyTime to the request's value; on a missing or
\* mark-deleted inode it returns OpNotExistErr and changes nothing
C20_AppendExtentsInOrder ==
    [][\A r \in Replica :
          AppliesOp(r, "opExtentsAdd") =>
              LET ino == NextInodeOf(r)
                  m == mp[r]
              IN  IF ino.Inode \in DOMAIN m.inodeTree /\ m.inodeTree[ino.Inode].MarkDelete # 1
                  THEN /\ appendExtents(m, ino).status = OpOk
                       /\ mp'[r].inodeTree =
                             [m.inodeTree EXCEPT
                                 ![ino.Inode].Extents = m.inodeTree[ino.Inode].Extents \o ino.Extents,
                                 ![ino.Inode].Generation = m.inodeTree[ino.Inode].Generation + 1,
                                 ![ino.Inode].ModifyTime = ino.ModifyTime]
                       /\ mp'[r].freeList = m.freeList
                  ELSE /\ appendExtents(m, ino).status = OpNotExistErr
                       /\ mp'[r] = [m EXCEPT !.applyID = mp'[r].applyID]]_vars

\* a replica has applied two appends to the inode, the second one carrying two
\* ExtentKeys and another time than the first
C20_Witness ==
    \E r \in Replica :
        /\ raftApplied[r] = Len(AppendLog) + 2
        /\ raftLog[raftApplied[r] - 1].Op = "opExtentsAdd"
        /\ raftLog[raftApplied[r]].Op = "opExtentsAdd"
        /\ raftLog[raftApplied[r]].Inode \in DOMAIN mp[r].inodeTree
        /\ Len(raftLog[raftApplied[r]].Extents) = 2
        /\ raftLog[raftApplied[r]].Extents[1] # raftLog[raftApplied[r]].Extents[2]
        /\ Len(mp[r].inodeTree[raftLog[raftApplied[r]].Inode].Extents) = 3
        /\ mp[r].inodeTree[raftLog[raftApplied[r]].Inode].Generation = 3
        /\ mp[r].inodeTree[raftLog[raftApplied[r]].Inode].ModifyTime
              # raftLog[raftApplied[r] - 1].ModifyTime

\* the extent id is a normal extent the store knows, its entry file exists
\* and carries no tombstone
Writable(id) ==
    /\ ~IsTinyExtent(id)
    /\ id \in DOMAIN extentInfoMap
    /\ id \in DOMAIN extFiles
    /\ ~extFiles[id].Deleted

\* C18: in every state, a write with size > 0, size <= BlockSize and
\* offset + size <= BlockSize * BlockCount to a writable extent succeeds and
\* leaves the extent's size at max(old size, offset + size); and no Write
\* step lowers the size of an extent
C18_WriteAdvancesDataSize ==
    /\ [](\A id \in ExtentIds, offset \in WriteOffsets, size \in WriteSizes :
            (Writable(id) /\ size > 0 /\ size <= BlockSize
                /\ offset + size <= BlockSize * BlockCount) =>
                LET w == StoreWrite(Store, id, offset, size) IN
                /\ w.err = "nil"
                /\ w.s.extFiles[id].Size = Max(extFiles[id].Size, offset + size)
                /\ w.s.extentInfoMap[id].Size = w.s.extFiles[id].Size)
    /\ [][storeOp'.op = "Write" =>
             \A id \in DOMAIN extFiles :
                 id \in DOMAIN extFiles' /\ extFiles'[id].Size >= extFiles[id].Size]_vars

\* a write has succeeded on a writable extent, whose size is now the end of
\* the last block
C18_Witness ==
    /\ storeOp.op = "Write"
    /\ storeOp.err = "nil"
    /\ \E id \in ExtentIds :
          /\ storeOp.id = id
          /\ Writable(id)
          /\ extFiles[id].Size = BlockSize * BlockCount

SpecExtent == Init /\ [][NextExtent]_vars

\* the bytes the entry file holds for block blockNo; an all-zero block where
\* the file holds none
BlockContents(blockNo) ==
    IF BodyReadAt(fsBody, SmallBlockSize, blockNo * SmallBlockSize) = <<>>
    THEN [i \in 1..SmallBlockSize |-> 0]
    ELSE BodyReadAt(fsBody, SmallBlockSize, blockNo * SmallBlockSize)

\* C19: after any sequence of accepted writes, each per-block CRC of the
\* header equals crc32 of the current contents of the block it covers
C19_BlockCrcMatchesContents ==
    \A blockNo \in 0..(SmallBlockCount - 1) : fsCrc[blockNo] = ChecksumIEEE(BlockContents(blockNo))

\* the base extent id that EXTENT_META holds
PersistedBaseId == Uint64(ReadAt(metaFile, ExtMetaBaseIdSize, ExtMetaBaseIdOffset))

\* C21 as stated: a successful Create of a normal extent leaves the base
\* extent id equal to the maximum of the previous base extent id and the
\* created id, both in memory and in EXTENT_META; a Create of a tiny id leaves
\* the base extent id unchanged; a Create that fails with ErrorExtentHasExsit
\* changes neither the extents nor the base extent id.
C21_CreateRaisesBaseExtentId ==
    [][storeOp'.op = "Create" =>
          /\ (storeOp'.err = "nil" /\ ~IsTinyExtent(storeOp'.id)) =>
                /\ baseExtentId' = Max(baseExtentId, storeOp'.id)
                /\ PersistedBaseId' = Max(baseExtentId, storeOp'.id)
          /\ IsTinyExtent(storeOp'.id) => baseExtentId' = baseExtentId
          /\ storeOp'.err = "ErrorExtentHasExsit" =>
                UNCHANGED <<extFiles, extentInfoMap, baseExtentId, metaFile>>]_vars

\* ------------------------------------------------------------------------
\* The tiny extent pool of an ExtentStore
\* ------------------------------------------------------------------------
\* a send on a channel made with room for the pool blocks while it is full
ChanFull(ch) == Len(ch) >= MaxTiny

\* initTinyExtent: every tiny extent is created, an extent that exists is
\* kept, and every id is sent to unavaliTinyExtentCh
RECURSIVE initTinyLoop(_, _, _)
initTinyLoop(s, ids, unavali) ==
    IF ids = <<>> THEN [s |-> s, unavali |-> unavali, err |-> "nil"]
    ELSE LET r == StoreCreate(s, Head(ids), 0, FALSE) IN
         IF r.err # "nil" /\ r.err # "ErrorExtentHasExsit"
         THEN [s |-> r.s, unavali |-> unavali, err |-> r.err]
         ELSE initTinyLoop(r.s, Tail(ids), Append(unavali, Head(ids)))

initTinyExtent(s) == initTinyLoop(s, TinyOrder(MaxTiny), <<>>)

\* a get that leaves the id in the channel
GetAvaliTinyExtentPeeks(avali) ==
    IF avali = <<>> THEN [avali |-> avali, extentId |-> 0, err |-> "ErrorNoAvaliFile"]
    ELSE [avali |-> avali, extentId |-> Head(avali), err |-> "nil"]

GetAvaliTinyExtent(avali) ==
    IF avali = <<>> THEN [avali |-> avali, extentId |-> 0, err |-> "ErrorNoAvaliFile"]
    ELSE [avali |-> Tail(avali), extentId |-> Head(avali), err |-> "nil"]

\* MoveAvaliExtentToUnavali(cnt)
RECURSIVE moveLoop(_, _, _)
moveLoop(avali, unavali, cnt) ==
    IF cnt = 0 THEN [avali |-> avali, unavali |-> unavali]
    ELSE LET g == GetAvaliTinyExtent(avali) IN
         IF g.err # "nil" THEN [avali |-> avali, unavali |-> unavali]
         ELSE moveLoop(g.avali, Append(unavali, g.extentId), cnt - 1)

\* NewExtentStore on the data directory, initTinyExtent included
OpenStore ==
    LET r == initTinyExtent(NewExtentStore(Store)) IN
    /\ SetStore(r.s)
    /\ avaliTinyExtentCh' = <<>>
    /\ unavaliTinyExtentCh' = r.unavali
    /\ tinyOp' = [op |-> "initTinyExtent", ids |-> <<>>, err |-> r.err]
    /\ storeOp' = [op |-> "NewExtentStore", id |-> 0, err |-> r.err]
    /\ UNCHANGED <<allocated, unlinked>>

GetAvali ==
    LET g == GetAvaliTinyExtent(avaliTinyExtentCh) IN
    /\ avaliTinyExtentCh' = g.avali
    /\ tinyOp' = [op |-> "GetAvaliTinyExtent",
                  ids |-> IF g.err = "nil" THEN <<g.extentId>> ELSE <<>>, err |-> g.err]
    /\ UNCHANGED <<unavaliTinyExtentCh, storeVars>>

GetUnavali ==
    /\ IF unavaliTinyExtentCh = <<>>
       THEN /\ tinyOp' = [op |-> "GetUnavaliTinyExtent", ids |-> <<>>, err |-> "ErrorNoUnAvaliFile"]
            /\ UNCHANGED unavaliTinyExtentCh
       ELSE /\ tinyOp' = [op |-> "GetUnavaliTinyExtent",
                          ids |-> <<Head(unavaliTinyExtentCh)>>, err |-> "nil"]
            /\ unavaliTinyExtentCh' = Tail(unavaliTinyExtentCh)
    /\ UNCHANGED <<avaliTinyExtentCh, storeVars>>

PutAvali(extentId) ==
    /\ ~ChanFull(avaliTinyExtentCh)
    /\ avaliTinyExtentCh' = Append(avaliTinyExtentCh, extentId)
    /\ tinyOp' = [op |-> "PutTinyExtentToAvaliCh", ids |-> <<extentId>>, err |-> "nil"]
    /\ UNCHANGED <<unavaliTinyExtentCh, storeVars>>

\* PutTinyExtentToUnavaliCh, and PutTinyExtentsToUnAvaliCh with the ids it
\* has room for
PutUnavali(extentIds) ==
    /\ Len(unavaliTinyExtentCh) + Len(extentIds) <= MaxTiny
    /\ unavaliTinyExtentCh' = unavaliTinyExtentCh \o extentIds
    /\ tinyOp' = [op |-> "PutTinyExtentsToUnAvaliCh", ids |-> extentIds, err |-> "nil"]
    /\ UNCHANGED <<avaliTinyExtentCh, storeVars>>

MoveAvaliToUnavali(cnt) ==
    LET m == moveLoop(avaliTinyExtentCh, unavaliTinyExtentCh, cnt) IN
    /\ Len(m.unavali) <= MaxTiny
    /\ avaliTinyExtentCh' = m.avali
    /\ unavaliTinyExtentCh' = m.unavali
    /\ tinyOp' = [op |-> "MoveAvaliExtentToUnavali", ids |-> <<>>, err |-> "nil"]
    /\ UNCHANGED storeVars

notTiny == <<metaVars, pipeVars, allocVars, extentVars, punchVars, snapVars, mgrVars, masterVars, cursorVars, auditVars, tearVars, stopVars, applyVars, createVars, lifeVars, poolVars, putVars>>

\* the ids a caller hands to PutTinyExtentsToUnAvaliCh
PutLists == {<<a>> : a \in TinyIds} \cup {<<a, b>> : a, b \in TinyIds}

NextTiny ==
    \/ OpenStore /\ UNCHANGED notTiny
    \/ GetAvali /\ UNCHANGED notTiny
    \/ GetUnavali /\ UNCHANGED notTiny
    \/ \E id \in TinyIds : PutAvali(id) /\ UNCHANGED notTiny
    \/ \E ids \in PutLists : PutUnavali(ids) /\ UNCHANGED notTiny
    \/ \E cnt \in 1..MaxTiny : MoveAvaliToUnavali(cnt) /\ UNCHANGED notTiny

\* a store that was opened on an empty data directory
InitTinyPool ==
    /\ InitMeta
    /\ LET r == initTinyExtent([extFiles |-> EmptyTree, extentInfoMap |-> EmptyTree,
                                cache |-> {}, baseExtentId |-> MinExtentId,
                                metaFile |-> Zeros(ExtMetaFileSize), deleteFile |-> <<>>])
       IN  /\ extFiles = r.s.extFiles
           /\ extentInfoMap = r.s.extentInfoMap
           /\ cache = r.s.cache
           /\ baseExtentId = r.s.baseExtentId
           /\ metaFile = r.s.metaFile
           /\ deleteFile = r.s.deleteFile
    /\ allocated = <<>>
    /\ unlinked = <<>>
    /\ storeOp = [op |-> "NewExtentStore", id |-> 0, err |-> "nil"]
    /\ InitPipe
    /\ InitAlloc
    /\ InitExtent
    /\ InitRest

SpecTiny == InitTinyPool /\ [][NextTiny]_vars

\* no id is in both channels and none is twice in a channel
TinyPartition ==
    LET all == avaliTinyExtentCh \o unavaliTinyExtentCh IN
    \A i, j \in 1..Len(all) : i # j => all[i] # all[j]

\* C22 as stated: at store open every tiny extent is created and placed in
\* the unavailable channel, and under any sequence of get, put and move
\* operations no tiny id is in both channels or twice in one, so that the
\* channels together never hold more ids than there are tiny extents.
C22_TinyQueuesPartition ==
    /\ []TinyPartition
    /\ [](Len(avaliTinyExtentCh) + Len(unavaliTinyExtentCh) <= MaxTiny)
    /\ [][tinyOp'.op = "initTinyExtent" =>
            /\ avaliTinyExtentCh' = <<>>
            /\ unavaliTinyExtentCh' = TinyOrder(MaxTiny)
            /\ TinyIds \subseteq DOMAIN extFiles']_vars

\* the call hands back ids that are in neither channel, each of them once
PutsFreeIds ==
    tinyOp'.op \in {"PutTinyExtentToAvaliCh", "PutTinyExtentsToUnAvaliCh"} =>
        /\ \A i, j \in 1..Len(tinyOp'.ids) : i # j => tinyOp'.ids[i] # tinyOp'.ids[j]
        /\ \A i \in 1..Len(tinyOp'.ids) :
              /\ \A k \in 1..Len(avaliTinyExtentCh) : avaliTinyExtentCh[k] # tinyOp'.ids[i]
              /\ \A k \in 1..Len(unavaliTinyExtentCh) : unavaliTinyExtentCh[k] # tinyOp'.ids[i]

\* C22: at store open every tiny extent is created and placed in the
\* unavailable channel, with the available channel empty; a get, a move, and
\* a put of ids that are in neither channel keep every tiny id at most once in
\* the two channels together, so that they never hold more ids than there
\* are tiny extents.
C22_TinyQueuesPartitionWhenPutsReturnClaimedIds ==
    /\ [][tinyOp'.op = "initTinyExtent" =>
            /\ avaliTinyExtentCh' = <<>>
            /\ unavaliTinyExtentCh' = TinyOrder(MaxTiny)
            /\ TinyIds \subseteq DOMAIN extFiles']_vars
    /\ [][(TinyPartition /\ PutsFreeIds) =>
            /\ TinyPartition'
            /\ Len(avaliTinyExtentCh') + Len(unavaliTinyExtentCh') <= MaxTiny]_vars

\* a writer has released a tiny extent to the available channel while other
\* tiny extents wait in the unavailable channel, each id being queued once
C22_Witness ==
    /\ tinyOp.op = "PutTinyExtentToAvaliCh"
    /\ TinyPartition
    /\ avaliTinyExtentCh # <<>>
    /\ unavaliTinyExtentCh # <<>>

\* ------------------------------------------------------------------------
\* One tiny extent: writes at raw offsets and page-aligned hole punching
\* ------------------------------------------------------------------------
MaxPage == 3

\* extent.go: PageSize = 4 * util.KB
PageSize == 4 * 1024

Pages == 0..MaxPage

\* x >= math.MaxUint32, computed in pages to stay within the integers of the
\* model checker
AtLeastMaxUint32(x) ==
    \/ x \div PageSize > 1048575
    \/ x \div PageSize = 1048575 /\ x % PageSize >= PageSize - 1

\* the pages that file.WriteAt(data[:size], offset) fills
PagesWritten(offset, size) ==
    IF size <= 0 THEN {}
    ELSE {p \in Pages : p >= offset \div PageSize /\ p <= (offset + size - 1) \div PageSize}

\* fsExtent.WriteTiny
WriteTiny(e, offset, size) ==
    IF AtLeastMaxUint32(offset + size) THEN [e |-> e, err |-> "ErrorExtentHasFull"]
    ELSE LET watermark == offset + size IN
         [e |-> [pages |-> e.pages \cup PagesWritten(offset, size),
                 dataSize |-> IF watermark % PageSize # 0
                              THEN watermark + (PageSize - (watermark % PageSize))
                              ELSE watermark],
          err |-> "nil"]

\* fallocate(2) with FALLOC_FL_PUNCH_HOLE | FALLOC_FL_KEEP_SIZE: the pages
\* that lie wholly within [offset, offset + len) are deallocated
Fallocate(pages, offset, len) ==
    IF offset < 0 \/ len <= 0 THEN [pages |-> pages, err |-> "EINVAL"]
    ELSE [pages |-> {p \in pages : ~(p * PageSize >= offset /\ (p + 1) * PageSize <= offset + len)},
          err |-> "nil"]

\* a DeleteTiny that drops the part of size beyond the last whole page
DeleteTinyRoundsDown(e, offset, size) ==
    IF offset % PageSize # 0 THEN [e |-> e, err |-> "ErrorParamMismatch"]
    ELSE LET size1 == size - (size % PageSize)
             f == Fallocate(e.pages, offset, size1)
         IN  [e |-> [e EXCEPT !.pages = f.pages], err |-> f.err]

\* fsExtent.DeleteTiny
DeleteTiny(e, offset, size) ==
    IF offset % PageSize # 0 THEN [e |-> e, err |-> "ErrorParamMismatch"]
    ELSE LET size1 == IF size % PageSize # 0
                      THEN size + (PageSize - (size % PageSize))
                      ELSE size
         IN  IF size1 % PageSize # 0 THEN [e |-> e, err |-> "ErrorParamMismatch"]
             ELSE LET f == Fallocate(e.pages, offset, size1) IN
                  [e |-> [e EXCEPT !.pages = f.pages], err |-> f.err]

TinyExtent == [pages |-> tinyPages, dataSize |-> tinyDataSize]

TinyWrite(offset, size) ==
    LET r == WriteTiny(TinyExtent, offset, size) IN
    /\ tinyPages' = r.e.pages
    /\ tinyDataSize' = r.e.dataSize
    /\ punchOp' = [op |-> "WriteTiny", offset |-> offset, size |-> size, err |-> r.err,
                   before |-> tinyPages]

TinyDelete(offset, size) ==
    LET r == DeleteTiny(TinyExtent, offset, size) IN
    /\ tinyPages' = r.e.pages
    /\ tinyDataSize' = r.e.dataSize
    /\ punchOp' = [op |-> "DeleteTiny", offset |-> offset, size |-> size, err |-> r.err,
                   before |-> tinyPages]

notPunch == <<metaVars, storeVars, pipeVars, allocVars, extentVars, tinyVars, snapVars, mgrVars, masterVars, cursorVars, auditVars, tearVars, stopVars, applyVars, createVars, lifeVars, poolVars, putVars>>

\* offsets on and off a page boundary; no bytes, one byte, a byte less than a
\* page, a page, a byte more, two pages
PunchOffsets == {0, 1, PageSize, PageSize + 1, 2 * PageSize}
PunchSizes == {0, 1, PageSize - 1, PageSize, PageSize + 1, 2 * PageSize}

NextPunch ==
    \/ \E p \in Pages, size \in {1, PageSize, PageSize + 1} :
          TinyWrite(p * PageSize, size) /\ UNCHANGED notPunch
    \/ \E offset \in PunchOffsets, size \in PunchSizes :
          TinyDelete(offset, size) /\ UNCHANGED notPunch

SpecPunch == Init /\ [][NextPunch]_vars

\* size rounded up to the next multiple of the page size
RoundUpToPage(size) == ((size + PageSize - 1) \div PageSize) * PageSize

\* C23: DeleteTiny(offset, size) with an offset that is not a multiple of the
\* page size fails with ErrorParamMismatch and punches no hole; with an
\* aligned offset and a size that is not a multiple of the page size, it
\* succeeds and deallocates exactly the pages of [offset, offset + size
\* rounded up to the next page multiple).
C23_DeleteTinyPageAligned ==
    [][punchOp'.op = "DeleteTiny" =>
          /\ punchOp'.offset % PageSize # 0 =>
                /\ punchOp'.err = "ErrorParamMismatch"
                /\ tinyPages' = tinyPages
          /\ (punchOp'.offset % PageSize = 0 /\ punchOp'.size % PageSize # 0) =>
                /\ punchOp'.err = "nil"
                /\ tinyPages' = {p \in tinyPages :
                                   \/ p * PageSize < punchOp'.offset
                                   \/ p * PageSize >= punchOp'.offset + RoundUpToPage(punchOp'.size)}]_vars

\* a DeleteTiny at an aligned offset with a size of one byte more than a page
\* has punched two pages that held data and has left a third page in place
C23_Witness ==
    /\ punchOp.op = "DeleteTiny"
    /\ punchOp.err = "nil"
    /\ punchOp.offset = PageSize
    /\ punchOp.size = PageSize + 1
    /\ {1, 2} \subseteq punchOp.before
    /\ tinyPages = {0}

\* ------------------------------------------------------------------------
\* SnapShot of an ExtentStore whose extents age
\* ------------------------------------------------------------------------
MaxClock == 4300

\* the FileInfo of extent id with its modification time
FileInfoOf(infoMap, modTimes, id) ==
    [FileId |-> id, Size |-> infoMap[id].Size, Deleted |-> infoMap[id].Deleted,
     ModTime |-> modTimes[id]]

\* GetStableExtentFilter()
GetStableExtentFilter(now, info) ==
    ~IsTinyExtent(info.FileId) /\ now - info.ModTime > 10 * 60
        /\ info.Deleted = FALSE /\ info.Size > 0

\* GetEmptyExtentFilter()
GetEmptyExtentFilter(now, info) ==
    ~IsTinyExtent(info.FileId) /\ now - info.ModTime > 60 * 60
        /\ info.Deleted = FALSE /\ info.Size = 0

\* the FileInfo of every extent of the store
AllFileInfo(infoMap, modTimes) ==
    {FileInfoOf(infoMap, modTimes, id) : id \in DOMAIN infoMap}

\* GetAllWatermark(filter), as the set of the FileInfo it returns; filter
\* maps each FileInfo to what the filter function returns for it
GetAllWatermark(infoMap, modTimes, filter) ==
    {info \in AllFileInfo(infoMap, modTimes) : filter[info]}

\* proto.File of a FileInfo
ProtoFile(info) ==
    [Name |-> info.FileId, Size |-> info.Size, MarkDel |-> info.Deleted,
     Modified |-> info.ModTime]

\* ExtentStore.SnapShot
StoreSnapShot(infoMap, modTimes, now) ==
    LET filter == [info \in AllFileInfo(infoMap, modTimes) |->
                      GetEmptyExtentFilter(now, info)]
    IN  {ProtoFile(info) : info \in GetAllWatermark(infoMap, modTimes, filter)}

\* a call that ends with FileInfo.FromExtent on extent id takes the
\* modification time of the entry file
Touch(id) ==
    snapModTime' = IF storeOp'.err = "nil" /\ id \in DOMAIN extentInfoMap'
                   THEN TreePut(snapModTime, id, snapNow)
                   ELSE snapModTime

SnapCreate(id) ==
    /\ id \notin DOMAIN extentInfoMap
    /\ Create(id, 1, FALSE)
    /\ Touch(id)
    /\ UNCHANGED <<snapNow, snapOp>>

SnapWrite(id) ==
    /\ Write(id, 0, 1)
    /\ Touch(id)
    /\ UNCHANGED <<snapNow, snapOp>>

SnapMarkDelete(id) ==
    /\ MarkDelete(id)
    /\ Touch(id)
    /\ UNCHANGED <<snapNow, snapOp>>

\* time passes
Tick(d) ==
    /\ snapNow + d <= MaxClock
    /\ snapNow' = snapNow + d
    /\ UNCHANGED <<snapModTime, snapOp, storeVars>>

SnapShot ==
    /\ snapOp' = [op |-> "SnapShot",
                  files |-> StoreSnapShot(extentInfoMap, snapModTime, snapNow)]
    /\ UNCHANGED <<snapNow, snapModTime, storeVars>>

notSnap == <<metaVars, pipeVars, allocVars, extentVars, tinyVars, punchVars, mgrVars, masterVars, cursorVars, auditVars, tearVars, stopVars, applyVars, createVars, lifeVars, poolVars, putVars>>

\* a second more than ten minutes, and fifty minutes: an hour is passed after
\* both
Ticks == {10 * 60 + 1, 50 * 60}

NextSnap ==
    \/ \E id \in ExtentIds : SnapCreate(id) /\ UNCHANGED notSnap
    \/ \E id \in ExtentIds : SnapWrite(id) /\ UNCHANGED notSnap
    \/ \E id \in ExtentIds : SnapMarkDelete(id) /\ UNCHANGED notSnap
    \/ \E d \in Ticks : Tick(d) /\ UNCHANGED notSnap
    \/ SnapShot /\ UNCHANGED notSnap

SpecSnap == Init /\ [][NextSnap]_vars

\* C24 as stated: SnapShot returns exactly the extents of the info map that
\* pass the stable filter (modified more than ten minutes ago, not deleted,
\* size > 0), each with its id, size, modification time and deleted flag; an
\* extent of size 0 or modified within the last ten minutes is never in the
\* result.
C24_SnapShotReturnsStableExtents ==
    [][snapOp'.op = "SnapShot" /\ UNCHANGED <<snapNow, snapModTime, extentInfoMap>> =>
          /\ snapOp'.files =
                {ProtoFile(FileInfoOf(extentInfoMap, snapModTime, id)) :
                    id \in {i \in DOMAIN extentInfoMap :
                               /\ snapNow - snapModTime[i] > 600
                               /\ ~extentInfoMap[i].Deleted
                               /\ extentInfoMap[i].Size > 0}}
          /\ \A f \in snapOp'.files : f.Size > 0 /\ snapNow - f.Modified > 600]_vars

\* what a snapshot carries: the trees, the cursor and the apply id
SnapshotState(m) ==
    [inodeTree |-> m.inodeTree, dentryTree |-> m.dentryTree,
     Cursor |-> m.Cursor, applyID |-> m.applyID]

\* C25: ApplySnapshot is idempotent: whatever partition state a snapshot
\* stream is applied to, applying it a second time leaves the inode tree, the
\* dentry tree, the cursor and the apply id as the first application left
\* them; and after a stream that was consumed to its end, these four depend
\* on the stream only, not on the state held before.
C25_ApplySnapshotIdempotent ==
    \A d \in Replica : \A items \in Streams(Snapshot(mp[d])) :
        \A r \in Replica :
            LET once == ApplySnapshot(mp[r], items)
                twice == ApplySnapshot(once.mp, items)
            IN  /\ twice.err = once.err
                /\ SnapshotState(twice.mp) = SnapshotState(once.mp)
                /\ once.err = "nil" =>
                      \A prior \in {mp[q] : q \in Replica} \cup {NewMetaPartition} :
                          SnapshotState(ApplySnapshot(prior, items).mp) = SnapshotState(once.mp)

\* a replica that holds an inode of its own is handed the snapshot of a
\* replica whose inode tree, cursor and apply id differ from its own
C25_Witness ==
    \E r, d \in Replica :
        /\ r # d
        /\ mp[r].inodeTree # EmptyTree
        /\ mp[d].inodeTree # EmptyTree
        /\ mp[r].inodeTree # mp[d].inodeTree
        /\ mp[r].Cursor # mp[d].Cursor
        /\ mp[r].applyID # mp[d].applyID
        /\ ApplySnapshot(mp[r], Snapshot(mp[d])).err = "nil"
        /\ SnapshotState(ApplySnapshot(mp[r], Snapshot(mp[d])).mp) = SnapshotState(mp[d])

\* ------------------------------------------------------------------------
\* Unlink at work: a regular file exists; clients create a directory, link
\* the file, and unlink the file and the directory
\* ------------------------------------------------------------------------
UnlinkFile == PartitionStart + 1
UnlinkDir == PartitionStart + 2

UnlinkLog == <<CmdCreateInode(UnlinkFile, ModeRegular)>>

UnlinkCap == Len(UnlinkLog) + MaxOps

UnlinkCmds ==
    {CmdCreateInode(UnlinkDir, ModeDir), CmdCreateLinkInode(UnlinkFile),
     CmdDeleteInode(UnlinkFile), CmdDeleteInode(UnlinkDir)}

\* every replica has applied log on partition part; leader is the leader
InitMetaWith(part, log, leader) ==
    /\ raftLog = log
    /\ raftApplied = [r \in Replica |-> Len(log)]
    /\ raftLeader = leader
    /\ mp = [r \in Replica |-> ApplyAll(part, log, Len(log))]
    /\ storeTick = [r \in Replica |-> r = leader]
    /\ initInodeQ = [r \in Replica |-> {}]
    /\ snapCount = 0
    /\ origin = [r \in Replica |-> "log"]
    /\ accepted = {}
    /\ batchKeys = {}
    /\ evictedKeys = {}
    /\ failedKeys = {}
    /\ attemptFlip = [k \in Keys |-> FALSE]
    /\ InitStore
    /\ InitPipe
    /\ InitAlloc
    /\ InitExtent
    /\ InitRest

InitUnlink == InitMetaWith(TruncPartition, UnlinkLog, StableLeader)

NextUnlink ==
    \/ \E cmd \in UnlinkCmds : Submit(cmd, UnlinkCap) /\ UNCHANGED notMeta
    \/ \E r \in Replica : ApplyEntry(r) /\ UNCHANGED <<issueGhosts, notMeta>>

SpecUnlink == InitUnlink /\ [][NextUnlink]_vars

\* the id of the inode that the command replica r applies next is about
NextInodeId(r) == raftLog[raftApplied[r] + 1].Inode

\* the free list of new is that of old with a pointer to inode ino pushed
Pushed(old, new, ino) ==
    /\ Len(new.freeList) = Len(old.freeList) + 1
    /\ SubSeq(new.freeList, 1, Len(old.freeList)) = old.freeList
    /\ new.freeList[Len(new.freeList)].Inode = ino

\* C26 as stated: Unlink of an existing inode decrements its NLink by one,
\* never below 0, and pushes it to the free list exactly when it is a regular
\* file whose NLink is then 0, its record staying in the inode tree; Unlink
\* never removes an inode record from the tree; Unlink of a missing inode
\* returns NotExist and changes nothing.
C26_UnlinkKeepsRecord ==
    [][\A r \in Replica :
          AppliesOp(r, "opDeleteInode") =>
              LET ino == NextInodeId(r)
                  old == mp[r]
                  new == mp'[r]
              IN  IF ino \in DOMAIN old.inodeTree
                  THEN /\ deleteInode(old, ino).status = OpOk
                       /\ new.inodeTree =
                             [old.inodeTree EXCEPT ![ino].NLink = Max(0, @ - 1)]
                       /\ IF old.inodeTree[ino].Type = ModeRegular /\ new.inodeTree[ino].NLink = 0
                          THEN Pushed(old, new, ino)
                          ELSE new.freeList = old.freeList
                  ELSE /\ deleteInode(old, ino).status = OpNotExistErr
                       /\ new.inodeTree = old.inodeTree
                       /\ new.freeList = old.freeList]_vars

\* C26 amended: Unlink of an existing regular file decrements its NLink by
\* one, never below 0, and pushes it to the free list exactly when its NLink
\* is then 0, its record staying in the inode tree; Unlink of an existing
\* inode of another type removes its record from the tree at once, pushes
\* nothing and leaves the other records as they were; Unlink of a missing
\* inode returns NotExist and changes nothing.
C26_UnlinkKeepsRegularRemovesOthers ==
    [][\A r \in Replica :
          AppliesOp(r, "opDeleteInode") =>
              LET ino == NextInodeId(r)
                  old == mp[r]
                  new == mp'[r]
              IN  IF ino \notin DOMAIN old.inodeTree
                  THEN /\ deleteInode(old, ino).status = OpNotExistErr
                       /\ new.inodeTree = old.inodeTree
                       /\ new.freeList = old.freeList
                  ELSE IF old.inodeTree[ino].Type = ModeRegular
                  THEN /\ deleteInode(old, ino).status = OpOk
                       /\ new.inodeTree =
                             [old.inodeTree EXCEPT ![ino].NLink = Max(0, @ - 1)]
                       /\ IF new.inodeTree[ino].NLink = 0
                          THEN Pushed(old, new, ino)
                          ELSE new.freeList = old.freeList
                  ELSE /\ deleteInode(old, ino).status = OpOk
                       /\ DOMAIN new.inodeTree = DOMAIN old.inodeTree \ {ino}
                       /\ \A i \in DOMAIN new.inodeTree : new.inodeTree[i] = old.inodeTree[i]
                       /\ Len(new.freeList) = Len(old.freeList)]_vars

\* a replica has unlinked the regular file twice: its NLink is 0, its record
\* is in the tree and the free list holds it twice
C26_Witness ==
    \E r \in Replica :
        /\ raftApplied[r] = Len(UnlinkLog) + 2
        /\ raftLog[raftApplied[r]] = CmdDeleteInode(UnlinkFile)
        /\ raftLog[raftApplied[r] - 1] = CmdDeleteInode(UnlinkFile)
        /\ UnlinkFile \in DOMAIN mp[r].inodeTree
        /\ mp[r].inodeTree[UnlinkFile].NLink = 0
        /\ Len(mp[r].freeList) = 2

\* ------------------------------------------------------------------------
\* Leader changes on replicas whose local server port may not answer
\* ------------------------------------------------------------------------
NextLeader ==
    \/ \E i \in InodeIds : Submit(CmdCreateInode(i, ModeRegular), MaxLog) /\ UNCHANGED notMeta
    \/ \E r \in Replica : ApplyEntry(r) /\ UNCHANGED <<issueGhosts, notMeta>>
    \/ \E r, d \in Replica : InstallSnapshot(r, d) /\ UNCHANGED notMeta
    \/ \E l \in Replica : LeaderChange(l, BOOLEAN) /\ UNCHANGED notMeta
    \/ \E r \in Replica : NextInodeID(r) /\ UNCHANGED notMeta
    \/ \E r \in Replica : InitInode(r, MaxLog) /\ UNCHANGED notMeta

\* a first partition whose range holds an id after that of the root inode
LeaderPartition == [NewMetaPartition EXCEPT !.End = PartitionEnd + 1]

\* no leader yet
InitLeader == InitMetaWith(LeaderPartition, <<>>, 0)

SpecLeader == InitLeader /\ [][NextLeader]_vars

\* HandleLeaderChange on replica r has allocated the next inode id and handed
\* a root inode of that id to initInode
SeedsRoot(r) ==
    /\ mp'[r] = [mp[r] EXCEPT !.Cursor = @ + 1]
    /\ initInodeQ'[r] = initInodeQ[r] \cup {mp[r].Cursor + 1}

SeedsNothing(r) == mp'[r] = mp[r] /\ initInodeQ'[r] = initInodeQ[r]

\* what HandleLeaderChange does on replica r when raft reports a new leader
LeaderChangeRule(r) ==
    IF r = raftLeader'
    THEN /\ IF mp[r].Start = 0 /\ mp[r].Cursor = 0 THEN SeedsRoot(r) ELSE SeedsNothing(r)
         /\ storeTick'[r]
    ELSE /\ SeedsNothing(r)
         /\ ~storeTick'[r]

\* every root inode handed to initInode has the first id of the partition
OneRootId == \A r \in Replica : initInodeQ[r] \subseteq {PartitionStart + 1}

MaxStart == 2

\* what follows partitionPrefix in the names of the model
Suffixes == {"1", "2", "x"}

\* strconv.ParseUint(partitionId, 10, 64)
ParseUint(str) ==
    CASE str = "1" -> [id |-> 1, err |-> "nil"]
      [] str = "2" -> [id |-> 2, err |-> "nil"]
      [] OTHER -> [id |-> 0, err |-> "invalid syntax"]

MasterIds == {1, 2}

PartitionDir(suffix) == [expired |-> FALSE, suffix |-> suffix, ts |-> 0]

\* ExpiredPartitionPrefix + name + "_" + unix time
ExpiredDir(suffix, ts) == [expired |-> TRUE, suffix |-> suffix, ts |-> ts]

\* an isExpiredPartition that keeps every directory when the list is empty
isExpiredPartitionKeepsOnEmptyList(suffix, partitions) ==
    IF partitions = {} THEN FALSE
    ELSE IF ParseUint(suffix).err # "nil" THEN TRUE
    ELSE ParseUint(suffix).id \notin partitions

isExpiredPartition(suffix, partitions) ==
    IF partitions = {} THEN TRUE
    ELSE IF ParseUint(suffix).err # "nil" THEN TRUE
    ELSE ParseUint(suffix).id \notin partitions

\* the loop of loadPartitions over the directories of rootDir whose name
\* starts with partitionPrefix; partitions: PersistenceMetaPartitions of the
\* master's reply; renameOk: the names os.Rename succeeds on; metaOk: the
\* names whose metadata loadMetadata can read; now: time.Now().Unix()
loadPartitions(root, raft, partitions, renameOk, metaOk, now) ==
    LET names == {d.suffix : d \in {e \in root : ~e.expired}}
        expired == {n \in names : isExpiredPartition(n, partitions)}
        moved == expired \cap renameOk
        raftMoved == {n \in moved : PartitionDir(n) \in raft}
        kept == names \ expired
    IN  [root |-> (root \ {PartitionDir(n) : n \in moved})
                     \cup {ExpiredDir(n, now) : n \in moved},
         raft |-> (raft \ {PartitionDir(n) : n \in raftMoved})
                     \cup {ExpiredDir(n, now) : n \in raftMoved},
         partitions |-> {ParseUint(n).id : n \in {k \in kept : ParseUint(k).err = "nil" /\ k \in metaOk}}]

\* an earlier run of the MetaNode created partition_<suffix> and its raft
\* directory
CreatePartitionDir(suffix) ==
    /\ PartitionDir(suffix) \notin mgrRootDir
    /\ mgrRootDir' = mgrRootDir \cup {PartitionDir(suffix)}
    /\ mgrRaftDir' = mgrRaftDir \cup {PartitionDir(suffix)}
    /\ mgrOp' = [op |-> "mkdir", list |-> {}, renameOk |-> {}, metaOk |-> {}, ts |-> 0]
    /\ UNCHANGED <<mgrPartitions, mgrStarts>>

\* the MetaNode starts
LoadPartitions(partitions, renameOk, metaOk) ==
    /\ mgrStarts < MaxStart
    /\ mgrStarts' = mgrStarts + 1
    /\ LET r == loadPartitions(mgrRootDir, mgrRaftDir, partitions, renameOk, metaOk, mgrStarts + 1) IN
          /\ mgrRootDir' = r.root
          /\ mgrRaftDir' = r.raft
          /\ mgrPartitions' = r.partitions
    /\ mgrOp' = [op |-> "loadPartitions", list |-> partitions, renameOk |-> renameOk,
                 metaOk |-> metaOk, ts |-> mgrStarts + 1]

notMgr == <<metaVars, storeVars, pipeVars, allocVars, extentVars, tinyVars, punchVars, snapVars, masterVars, cursorVars, auditVars, tearVars, stopVars, applyVars, createVars, lifeVars, poolVars, putVars>>

NextMgr ==
    \/ \E suffix \in Suffixes : CreatePartitionDir(suffix) /\ UNCHANGED notMgr
    \/ \E partitions \in SUBSET MasterIds, renameOk \in SUBSET Suffixes, metaOk \in SUBSET Suffixes :
          LoadPartitions(partitions, renameOk, metaOk) /\ UNCHANGED notMgr

SpecMgr == Init /\ [][NextMgr]_vars

\* the id of partition_<suffix> is in the list of the master
InList(suffix, list) == ParseUint(suffix).err = "nil" /\ ParseUint(suffix).id \in list

\* the step renames partition_<suffix> to its expired name
Renamed(suffix) ==
    /\ PartitionDir(suffix) \in mgrRootDir
    /\ PartitionDir(suffix) \notin mgrRootDir'
    /\ ExpiredDir(suffix, mgrOp'.ts) \in mgrRootDir'

\* every directory is there after the step, under its name or renamed
NoneDeleted ==
    \A d \in mgrRootDir : d \in mgrRootDir' \/ ExpiredDir(d.suffix, mgrOp'.ts) \in mgrRootDir'

Applied == "applied"

MasterKeys == {"vol", "node"}
MasterValues == {<<7>>, <<8>>}

\* strconv.FormatUint(index, 10) as the bytes of its decimal digits
RECURSIVE FormatUint(_)
FormatUint(n) == IF n < 10 THEN <<n>> ELSE Append(FormatUint(n \div 10), n % 10)

\* strconv.ParseUint(string(byteValues), 10, 64) on decimal digits
RECURSIVE ParseDigits(_)
ParseDigits(digits) ==
    IF digits = <<>> THEN 0
    ELSE 10 * ParseDigits(SubSeq(digits, 1, Len(digits) - 1)) + digits[Len(digits)]

\* the commands of the masters: a put and a delete of a key
MasterCmds ==
    {[Op |-> "OpSyncPut", K |-> k, V |-> v] : k \in MasterKeys, v \in MasterValues}
    \cup {[Op |-> "OpSyncDeleteVol", K |-> k, V |-> <<>>] : k \in MasterKeys}

\* store.BatchPut(cmdMap) and store.DeleteKeyAndPutIndex(key, cmdMap)
BatchPut(store, cmdMap) ==
    [k \in DOMAIN store \cup DOMAIN cmdMap |->
        IF k \in DOMAIN cmdMap THEN cmdMap[k] ELSE store[k]]

DeleteKeyAndPutIndex(store, key, cmdMap) ==
    [k \in (DOMAIN store \ {key}) \cup {Applied} |->
        IF k = Applied THEN cmdMap[Applied] ELSE store[k]]

\* MetadataFsm.Apply(command, index)
mfApply(fsm, cmd, index) ==
    LET cmdMap == [k \in {cmd.K, Applied} |-> IF k = Applied THEN FormatUint(index) ELSE cmd.V] IN
    [store |-> IF cmd.Op = "OpSyncDeleteVol"
               THEN DeleteKeyAndPutIndex(fsm.store, cmd.K, cmdMap)
               ELSE BatchPut(fsm.store, cmdMap),
     applied |-> index]

\* restoreApplied: the applied index the store holds, 0 if it holds none
restoreApplied(store) ==
    IF Applied \notin DOMAIN store \/ store[Applied] = <<>> THEN 0
    ELSE ParseDigits(store[Applied])

\* MetadataFsm.Snapshot: the applied index of the FSM and the pairs of its store
mfSnapshot(fsm) == [applied |-> fsm.applied, items |-> fsm.store]

\* MetadataFsm.ApplySnapshot with the handler that restores the applied index;
\* got: the keys the iterator delivers before it ends (all of them) or fails
mfApplySnapshot(fsm, snap, got) ==
    LET store == [k \in DOMAIN fsm.store \cup got |->
                     IF k \in got THEN snap.items[k] ELSE fsm.store[k]]
    IN  IF got = DOMAIN snap.items
        THEN [store |-> store, applied |-> restoreApplied(store), err |-> "nil"]
        ELSE [store |-> store, applied |-> fsm.applied, err |-> "iter"]

Fsm(f) == [store |-> mfStore[f], applied |-> mfApplied[f]]

MasterSubmit(cmd) ==
    /\ Len(mfLog) < MaxLog
    /\ mfLog' = Append(mfLog, cmd)
    /\ mfOp' = [op |-> "Submit", fsm |-> 0, applyIndex |-> 0, err |-> "nil"]
    /\ UNCHANGED <<mfIndex, mfStore, mfApplied>>

MasterApply(f) ==
    /\ mfIndex[f] < Len(mfLog)
    /\ LET r == mfApply(Fsm(f), mfLog[mfIndex[f] + 1], mfIndex[f] + 1) IN
          /\ mfStore' = [mfStore EXCEPT ![f] = r.store]
          /\ mfApplied' = [mfApplied EXCEPT ![f] = r.applied]
    /\ mfIndex' = [mfIndex EXCEPT ![f] = @ + 1]
    /\ mfOp' = [op |-> "Apply", fsm |-> f, applyIndex |-> 0, err |-> "nil"]
    /\ UNCHANGED mfLog

\* master d is handed the snapshot of master s
MasterApplySnapshot(d, s) ==
    /\ d # s
    /\ LET snap == mfSnapshot(Fsm(s)) IN
       \E got \in SUBSET DOMAIN snap.items :
          LET r == mfApplySnapshot(Fsm(d), snap, got) IN
          /\ mfStore' = [mfStore EXCEPT ![d] = r.store]
          /\ mfApplied' = [mfApplied EXCEPT ![d] = r.applied]
          /\ mfIndex' = [mfIndex EXCEPT ![d] = IF r.err = "nil" THEN mfIndex[s] ELSE @]
          /\ mfOp' = [op |-> "ApplySnapshot", fsm |-> d, applyIndex |-> snap.applied, err |-> r.err]
    /\ UNCHANGED mfLog

notMaster == <<metaVars, storeVars, pipeVars, allocVars, extentVars, tinyVars, punchVars, snapVars, mgrVars, cursorVars, auditVars, tearVars, stopVars, applyVars, createVars, lifeVars, poolVars, putVars>>

NextMaster ==
    \/ \E cmd \in MasterCmds : MasterSubmit(cmd) /\ UNCHANGED notMaster
    \/ \E f \in Replica : MasterApply(f) /\ UNCHANGED notMaster
    \/ \E d, s \in Replica : MasterApplySnapshot(d, s) /\ UNCHANGED notMaster

SpecMaster == Init /\ [][NextMaster]_vars

\* C29 as stated: after ApplySnapshot of a MetadataFsm has consumed a
\* snapshot to its end without error, with the handler that restores the
\* applied index from the store, the applied index of the FSM equals the
\* apply index recorded in the snapshot.
C29_AppliedEqualsSnapshotIndex ==
    [][(mfOp'.op = "ApplySnapshot" /\ mfOp'.err = "nil") =>
          mfApplied'[mfOp'.fsm] = mfOp'.applyIndex]_vars

\* ------------------------------------------------------------------------
\* A file that is unlinked to NLink 0 and linked again
\* ------------------------------------------------------------------------
RelinkCmds == {CmdCreateLinkInode(FreeInode), CmdDeleteInode(FreeInode)}

\* FreeLog applied everywhere: the file is at NLink 0 and on the free list
InitRelink == InitMetaWith(NewMetaPartition, FreeLog, StableLeader)

NextRelink ==
    \/ \E cmd \in RelinkCmds : Submit(cmd, FreeCap) /\ UNCHANGED notMeta
    \/ \E r \in Replica : ApplyEntry(r) /\ TrackEvict(r) /\ UNCHANGED notMeta
    \/ LeaderDeleteWorker
    \/ \E r \in Replica : CheckFreelistWorker(r) /\ UNCHANGED notMeta

SpecRelink == InitRelink /\ [][NextRelink]_vars

\* replica r holds the record of the file with NLink above 0
Linked(r) ==
    /\ FreeInode \in DOMAIN mp[r].inodeTree
    /\ mp[r].inodeTree[FreeInode].NLink > 0

\* C30 as stated: an inode whose NLink is greater than 0 is never reclaimed:
\* when a regular file was unlinked to NLink 0, pushed to the free list and
\* linked again, no pass of the deleteWorker sends a MarkDelete for one of
\* its ExtentKeys and no step removes its record from the inode tree.
C30_LinkedInodeNotReclaimed ==
    [][\A r \in Replica :
          Linked(r) =>
              /\ FreeInode \in DOMAIN mp'[r].inodeTree
              /\ (r = raftLeader => attemptFlip' = attemptFlip)]_vars

\* ------------------------------------------------------------------------
\* nextInodeID against the apply loop on one replica
\* ------------------------------------------------------------------------
\* the replica becomes leader while k creates of the former leader, which
\* took the ids after the cursor, are committed and not yet applied here
BecomeLeader(k) ==
    /\ ~ncLeader
    /\ ncLeader' = TRUE
    /\ ncPending' = [i \in 1..k |-> ncCursor + i]
    /\ UNCHANGED <<ncCursor, ncEnd, ncPc, ncCur, ncCalls, ncReturned, ncApplyPc>>

\* a request handler on the leader enters nextInodeID
CallNextInodeID(c) ==
    /\ ncLeader
    /\ ncPc[c] = "idle"
    /\ ncCalls < MaxCalls
    /\ ncCalls' = ncCalls + 1
    /\ ncPc' = [ncPc EXCEPT ![c] = "load"]
    /\ UNCHANGED <<ncCursor, ncEnd, ncCur, ncReturned, ncPending, ncApplyPc, ncLeader>>

\* cur := atomic.LoadUint64(&mp.config.Cursor); the range check
LoadCursor(c) ==
    /\ ncPc[c] = "load"
    /\ ncCur' = [ncCur EXCEPT ![c] = ncCursor]
    /\ ncPc' = [ncPc EXCEPT ![c] = IF ncCursor >= ncEnd THEN "idle" ELSE "cas"]
    /\ UNCHANGED <<ncCursor, ncEnd, ncCalls, ncReturned, ncPending, ncApplyPc, ncLeader>>

\* atomic.CompareAndSwapUint64(&mp.config.Cursor, cur, newId)
CompareAndSwapCursor(c) ==
    /\ ncPc[c] = "cas"
    /\ IF ncCursor = ncCur[c]
       THEN /\ ncCursor' = ncCur[c] + 1
            /\ ncReturned' = Append(ncReturned, ncCur[c] + 1)
            /\ ncPc' = [ncPc EXCEPT ![c] = "idle"]
       ELSE /\ ncPc' = [ncPc EXCEPT ![c] = "load"]
            /\ UNCHANGED <<ncCursor, ncReturned>>
    /\ UNCHANGED <<ncEnd, ncCur, ncCalls, ncPending, ncApplyPc, ncLeader>>

\* Apply of opCreateInode: the test mp.config.Cursor < ino.Inode
ApplyCheckCursor ==
    /\ ncApplyPc = "idle"
    /\ ncPending # <<>>
    /\ IF ncCursor < Head(ncPending)
       THEN ncApplyPc' = "store" /\ UNCHANGED ncPending
       ELSE ncPending' = Tail(ncPending) /\ UNCHANGED ncApplyPc
    /\ UNCHANGED <<ncCursor, ncEnd, ncPc, ncCur, ncCalls, ncReturned, ncLeader>>

\* Apply of opCreateInode: the assignment mp.config.Cursor = ino.Inode
ApplyStoreCursor ==
    /\ ncApplyPc = "store"
    /\ ncCursor' = Head(ncPending)
    /\ ncPending' = Tail(ncPending)
    /\ ncApplyPc' = "idle"
    /\ UNCHANGED <<ncEnd, ncPc, ncCur, ncCalls, ncReturned, ncLeader>>

notCursor == <<metaVars, storeVars, pipeVars, allocVars, extentVars, tinyVars, punchVars, snapVars, mgrVars, masterVars, auditVars, tearVars, stopVars, applyVars, createVars, lifeVars, poolVars, putVars>>

NextCursor ==
    \/ \E k \in 0..MaxPending : BecomeLeader(k) /\ UNCHANGED notCursor
    \/ \E c \in Callers : CallNextInodeID(c) /\ UNCHANGED notCursor
    \/ \E c \in Callers : LoadCursor(c) /\ UNCHANGED notCursor
    \/ \E c \in Callers : CompareAndSwapCursor(c) /\ UNCHANGED notCursor
    \/ ApplyCheckCursor /\ UNCHANGED notCursor
    \/ ApplyStoreCursor /\ UNCHANGED notCursor

SpecCursor == Init /\ [][NextCursor]_vars

\* C31 as stated: nextInodeID never returns the same inode id twice on one
\* replica, whatever the interleaving of its concurrent callers with each
\* other and with the update of the cursor by the apply loop.
C31_NextInodeIDNeverRepeats ==
    \A i, j \in DOMAIN ncReturned : i # j => ncReturned[i] # ncReturned[j]

\* ------------------------------------------------------------------------
\* One pass of the deleteWorker, with what it issued and what was accepted
\* ------------------------------------------------------------------------
MarkDeleteWorker ==
    \E out \in [Keys -> Outcomes] :
        /\ DeleteWorker(StableLeader, FreeCap, out)
        /\ TrackBatch(StableLeader, FreeCap, out)
        /\ TrackIssue(StableLeader, FreeCap, out)
        /\ UNCHANGED notMeta

NextMark ==
    \/ \E cmd \in FreeCmds : Submit(cmd, FreeCap) /\ UNCHANGED notMeta
    \/ \E r \in Replica : ApplyEntry(r) /\ TrackEvict(r) /\ UNCHANGED notMeta
    \/ MarkDeleteWorker
    \/ \E r \in Replica : CheckFreelistWorker(r) /\ UNCHANGED notMeta

SpecMark == InitFreeWith(StableLeader) /\ [][NextMark]_vars

\* the ExtentKeys a MarkDelete was sent for in this step
IssuedNow == {k \in Keys : attemptFlip'[k] # attemptFlip[k]}

\* the keys of the elements the pass pops from the free list of the leader
PoppedKeys ==
    LET m == mp[StableLeader] IN
    UNION {Range(Deref(m, m.freeList[i]).Extents) : i \in DOMAIN m.freeList}

\* C32 as stated: in one pass of the deleteWorker every key of every popped
\* inode is attempted; an inode with failed MarkDeletes is pushed back on
\* the free list with exactly its failed keys (no accepted key, every failed
\* key), and an inode with no failure is not pushed back.  Checked on the
\* first pass that pops the one inode of the free list.
C32_PushedBackWithFailedKeys ==
    [][(IssuedNow # {} /\ accepted = {} /\ Len(mp[StableLeader].freeList) = 1) =>
          LET failed == PoppedKeys \ accepted'
              fl == mp'[StableLeader].freeList
          IN  /\ IssuedNow = PoppedKeys
              /\ IF failed = {} THEN fl = <<>>
                 ELSE Len(fl) = 1 /\ fl[1].Inode = FreeInode /\ Range(fl[1].Extents) = failed]_vars

\* ------------------------------------------------------------------------
\* The audit of the free list on followers
\* ------------------------------------------------------------------------
\* two regular files
AuditInodes == {PartitionStart + 1, PartitionStart + 2}

AuditPartition == [NewMetaPartition EXCEPT !.End = PartitionStart + 2]

\* the log that created the two files and unlinked them in turn, again and
\* again: one more unlink than a pass of the audit pops
AuditLog ==
    <<CmdCreateInode(PartitionStart + 1, ModeRegular),
      CmdCreateInode(PartitionStart + 2, ModeRegular)>>
    \o [i \in 1..(BatchCounts + 1) |-> CmdDeleteInode(PartitionStart + 1 + (i % 2))]

AuditCap == Len(AuditLog) + MaxOps

AuditCmds ==
    {CmdInternalDelete(<<PartitionStart + 1>>),
     CmdInternalDelete(<<PartitionStart + 1, PartitionStart + 2>>),
     CmdDeleteInode(PartitionStart + 2)}

\* one iteration of the loop of checkFreelistWorker on replica r, the leader
\* test included
CheckFreelistTick(r) ==
    /\ auditOp.n < MaxAudit
    /\ mp' = [mp EXCEPT ![r] = IF r = raftLeader THEN @ ELSE checkFreelist(@)]
    /\ auditOp' = [op |-> "checkFreelistWorker", r |-> r,
                   popped |-> IF r = raftLeader THEN 0
                              ELSE IF Len(mp[r].freeList) < BatchCounts
                                   THEN Len(mp[r].freeList) ELSE BatchCounts,
                   dropped |-> Len(mp[r].freeList) - Len(mp'[r].freeList),
                   n |-> auditOp.n + 1]
    /\ UNCHANGED <<raftLog, raftApplied, raftLeader, storeTick, initInodeQ, snapCount, origin,
                   batchGhosts, issueGhosts>>

notMetaAudit == <<storeVars, pipeVars, allocVars, extentVars, tinyVars, punchVars, snapVars, mgrVars, masterVars, cursorVars, tearVars, stopVars, applyVars, createVars, lifeVars, poolVars, putVars>>

NextAudit ==
    \/ \E cmd \in AuditCmds : Submit(cmd, AuditCap) /\ UNCHANGED <<auditVars, notMetaAudit>>
    \/ \E r \in Replica : ApplyEntry(r) /\ UNCHANGED <<issueGhosts, auditVars, notMetaAudit>>
    \/ \E l \in Replica : LeaderChange(l, {TRUE}) /\ UNCHANGED <<auditVars, notMetaAudit>>
    \/ \E r \in Replica : CheckFreelistTick(r) /\ UNCHANGED notMetaAudit

\* the partition after raft handed it the entries lo..hi of log, by halves;
\* the test on applyID makes the first half be computed before the second
RECURSIVE ApplySpan(_, _, _, _)
ApplySpan(m, log, lo, hi) ==
    IF lo > hi THEN m
    ELSE IF lo = hi THEN Apply(m, log[lo], lo).mp
    ELSE LET mid == (lo + hi) \div 2
             half == ApplySpan(m, log, lo, mid)
         IN  IF half.applyID = mid THEN ApplySpan(half, log, mid + 1, hi) ELSE half

\* every replica has applied AuditLog; StableLeader is the leader
InitAuditRun ==
    /\ raftLog = AuditLog
    /\ raftApplied = [r \in Replica |-> Len(AuditLog)]
    /\ raftLeader = StableLeader
    /\ mp = [r \in Replica |-> ApplySpan(AuditPartition, AuditLog, 1, Len(AuditLog))]
    /\ storeTick = [r \in Replica |-> r = StableLeader]
    /\ initInodeQ = [r \in Replica |-> {}]
    /\ snapCount = 0
    /\ origin = [r \in Replica |-> "log"]
    /\ accepted = {}
    /\ batchKeys = {}
    /\ evictedKeys = {}
    /\ failedKeys = {}
    /\ attemptFlip = [k \in Keys |-> FALSE]
    /\ InitStore
    /\ InitPipe
    /\ InitAlloc
    /\ InitExtent
    /\ InitRest

SpecAudit == InitAuditRun /\ [][NextAudit]_vars

\* what the audit leaves of the free list fl on a partition with inode tree
\* tree: the elements after the first BatchCounts, then those of the first
\* BatchCounts whose inode id is in the tree, in their order
AuditedList(fl, tree) ==
    LET n == IF Len(fl) < BatchCounts THEN Len(fl) ELSE BatchCounts IN
    SubSeq(fl, n + 1, Len(fl))
        \o SelectSeq(SubSeq(fl, 1, n), LAMBDA e : e.Inode \in DOMAIN tree)

\* C33: an iteration of checkFreelistWorker on a follower pops up to 100
\* inodes and pushes back exactly those whose id is still in the inode tree;
\* on the leader it pops nothing; it changes neither the inode tree nor the
\* raft log and issues no MarkDelete.
C33_AuditOnlyOnFollowers ==
    [][auditOp'.op = "checkFreelistWorker" /\ auditOp' # auditOp =>
          LET r == auditOp'.r IN
          /\ mp'[r].freeList = IF r = raftLeader THEN mp[r].freeList
                               ELSE AuditedList(mp[r].freeList, mp[r].inodeTree)
          /\ auditOp'.popped <= BatchCounts
          /\ mp'[r].inodeTree = mp[r].inodeTree
          /\ raftLog' = raftLog
          /\ attemptFlip' = attemptFlip
          /\ \A q \in Replica \ {r} : mp'[q] = mp[q]]_vars

\* an audit on a follower popped 100 inodes, dropped some of them and left
\* one that it did not pop
C33_Witness ==
    /\ auditOp.op = "checkFreelistWorker"
    /\ auditOp.r # raftLeader
    /\ auditOp.popped = BatchCounts
    /\ auditOp.dropped > 0
    /\ auditOp.dropped < BatchCounts
    /\ Len(mp[auditOp.r].freeList) = BatchCounts + 1 - auditOp.dropped

\* ------------------------------------------------------------------------
\* Teardown of the connection of a writer (ClearReqs)
\* ------------------------------------------------------------------------
NormalFileIds == {MinExtentId, MinExtentId + 1}

\* a request in sentList with the follower connection AllocateNextConn gave it
RequestOn(req, fid, conn) ==
    [pkt |-> PacketOf(req, 0, fid, 0, 0, 0), failed |-> FALSE, connsClosed |-> FALSE,
     conn |-> conn]

\* AllocateNextConn for a write on a normal extent: the connection kept in
\* connectMap for the extent, a new one from the pool when there is none
PushNormalWrite(fid) ==
    /\ reqSeq < MaxReq
    /\ reqSeq' = reqSeq + 1
    /\ LET known == fid \in DOMAIN connectMap
           conn == IF known THEN connectMap[fid] ELSE connSeq + 1
       IN  /\ connectMap' = IF known THEN connectMap ELSE TreePut(connectMap, fid, conn)
           /\ connSeq' = IF known THEN connSeq ELSE connSeq + 1
           /\ connOpen' = connOpen \cup {conn}
           /\ sentList' = Append(sentList, RequestOn(reqSeq + 1, fid, conn))
    /\ pipeOp' = [op |-> "PushListElement", reply |-> NoReply, success |-> FALSE,
                  err |-> "nil"]
    /\ UNCHANGED <<replyCh, destroyed, tinyVars>>

\* a write on a tiny extent: the leader claims an available tiny extent and
\* takes a connection from the pool
PushTinyWrite ==
    /\ reqSeq < MaxReq
    /\ LET g == GetAvaliTinyExtent(avaliTinyExtentCh) IN
          /\ g.err = "nil"
          /\ avaliTinyExtentCh' = g.avali
          /\ tinyOp' = [op |-> "GetAvaliTinyExtent", ids |-> <<g.extentId>>, err |-> "nil"]
          /\ sentList' = Append(sentList, RequestOn(reqSeq + 1, g.extentId, connSeq + 1))
    /\ reqSeq' = reqSeq + 1
    /\ connSeq' = connSeq + 1
    /\ connOpen' = connOpen \cup {connSeq + 1}
    /\ pipeOp' = [op |-> "PushListElement", reply |-> NoReply, success |-> FALSE,
                  err |-> "nil"]
    /\ UNCHANGED <<replyCh, connectMap, destroyed, unavaliTinyExtentCh>>

\* the repair of tiny extents hands an unavailable one over as available
RepairTiny ==
    /\ unavaliTinyExtentCh # <<>>
    /\ ~ChanFull(avaliTinyExtentCh)
    /\ unavaliTinyExtentCh' = Tail(unavaliTinyExtentCh)
    /\ avaliTinyExtentCh' = Append(avaliTinyExtentCh, Head(unavaliTinyExtentCh))
    /\ tinyOp' = [op |-> "PutTinyExtentToAvaliCh", ids |-> <<Head(unavaliTinyExtentCh)>>,
                  err |-> "nil"]
    /\ UNCHANGED <<pipeVars, tearVars>>

\* a reply of the follower to the front request
AckFront(reply) ==
    /\ DelElement(reply)
    /\ connOpen' = IF sentList # <<>> /\ replyDiffers(reply, Head(sentList).pkt)
                   THEN connOpen \ {Head(sentList).conn} ELSE connOpen
    /\ UNCHANGED <<connectMap, connSeq, destroyed, tinyVars>>

\* leaderPutTinyExtentToStore over the requests of list: the tiny extents of
\* the packets, in the order of the list, go to the unavailable channel
RECURSIVE leaderPutTinyExtents(_, _)
leaderPutTinyExtents(unavali, list) ==
    IF list = <<>> THEN unavali
    ELSE leaderPutTinyExtents(
             IF IsTinyExtent(Head(list).pkt.FileID)
             THEN Append(unavali, Head(list).pkt.FileID) ELSE unavali,
             Tail(list))

\* a teardown that closes the connections of the packets and leaves those
\* of connectMap open
clearReqsConnsOfPackets(open, map, list) ==
    open \ {list[i].conn : i \in DOMAIN list}

\* the connections left open by ClearReqs: those of the packets and those of
\* connectMap are closed
clearReqsConns(open, map, list) ==
    (open \ {list[i].conn : i \in DOMAIN list}) \ Range(map)

\* ClearReqs as a whole: the packets are force-destroyed and their tiny
\* extents returned, the replies drained, the list and connectMap replaced by
\* empty ones; a send on a full channel blocks
Teardown ==
    /\ Len(leaderPutTinyExtents(unavaliTinyExtentCh, sentList)) <= MaxTiny
    /\ ClearReqs
    /\ destroyed' = destroyed \cup {sentList[i].pkt.ReqID : i \in DOMAIN sentList}
    /\ unavaliTinyExtentCh' = leaderPutTinyExtents(unavaliTinyExtentCh, sentList)
    /\ connOpen' = clearReqsConns(connOpen, connectMap, sentList)
    /\ connectMap' = <<>>
    /\ UNCHANGED <<connSeq, avaliTinyExtentCh, tinyOp>>

notTeardown == <<metaVars, storeVars, allocVars, extentVars, punchVars, snapVars, mgrVars, masterVars, cursorVars, auditVars, stopVars, applyVars, createVars, lifeVars, poolVars, putVars>>

TearReplies == {PacketOf(req, 0, fid, 0, 0, 0) : req \in 1..MaxReq, fid \in NormalFileIds}

NextTear ==
    \/ \E fid \in NormalFileIds : PushNormalWrite(fid) /\ UNCHANGED notTeardown
    \/ PushTinyWrite /\ UNCHANGED notTeardown
    \/ RepairTiny /\ UNCHANGED notTeardown
    \/ \E reply \in TearReplies : AckFront(reply) /\ UNCHANGED notTeardown
    \/ TakeReply /\ UNCHANGED <<tearVars, tinyVars, notTeardown>>
    \/ Teardown /\ UNCHANGED notTeardown

SpecTear == Init /\ [][NextTear]_vars

\* how often id occurs in the channel ch
Occurrences(ch, id) == Cardinality({i \in DOMAIN ch : ch[i] = id})

\* C34: after ClearReqs every packet that was in sentList has been
\* force-destroyed and its follower connection is closed, every tiny extent
\* such a packet had claimed has been put on the unavailable channel,
\* sentList and replyCh are empty, and connectMap is empty with every
\* connection it held closed.
C34_TeardownReleasesEverything ==
    [][Teardown =>
          /\ sentList' = <<>>
          /\ replyCh' = <<>>
          /\ connectMap' = <<>>
          /\ \A k \in DOMAIN connectMap : connectMap[k] \notin connOpen'
          /\ \A i \in DOMAIN sentList :
                LET request == sentList[i] IN
                /\ request.pkt.ReqID \in destroyed'
                /\ request.conn \notin connOpen'
                /\ IsTinyExtent(request.pkt.FileID) =>
                      Occurrences(unavaliTinyExtentCh', request.pkt.FileID) =
                          Occurrences(unavaliTinyExtentCh, request.pkt.FileID) + 1
          /\ \A id \in TinyIds :
                (\A i \in DOMAIN sentList : sentList[i].pkt.FileID # id) =>
                    Occurrences(unavaliTinyExtentCh', id) = Occurrences(unavaliTinyExtentCh, id)]_vars

\* a teardown has force-destroyed at least two packets, a tiny extent that a
\* packet had claimed is back on the unavailable channel, and none of the
\* three connections handed out is open
C34_Witness ==
    /\ pipeOp.op = "ClearReqs"
    /\ Cardinality(destroyed) >= 2
    /\ Len(unavaliTinyExtentCh) = MaxTiny
    /\ unavaliTinyExtentCh # TinyOrder(MaxTiny)
    /\ connSeq >= 3
    /\ connOpen = {}

\* ------------------------------------------------------------------------
\* The long-running workers and their stop channels
\* ------------------------------------------------------------------------
MaxIter == 3       \* iterations counted after a stop channel was closed

Tickers == {"ticker", "cleanUpTicker", "metricTicker"}

\* select { case <-stopC: return; default: }
selectDefault(stop) == IF stop THEN "stopC" ELSE "default"

\* the cases of the select of statusUpdateScheduler that can proceed; when
\* several can, one of them is taken
selectReady(stop, ticks) == ticks \cup (IF stop THEN {"stopC"} ELSE {})

\* a LaunchRepair that does not look at the stop channel
LaunchRepairUnchecked(unavailable, stop, hostsOk, isLeader) ==
    ~unavailable /\ hostsOk /\ isLeader

\* LaunchRepair: whether it reaches dp.fileRepair()
LaunchRepair(unavailable, stop, hostsOk, isLeader) ==
    ~unavailable /\ ~stop /\ hostsOk /\ isLeader

Bump(w) == [begun EXCEPT ![w] = @ + 1]

\* metaPartition.Stop and dataPartition.Stop close the channel
CloseMpStopC ==
    /\ ~mpStopC
    /\ mpStopC' = TRUE
    /\ UNCHANGED <<dpStopC, workerPc, tickReady, begun, lateRepairs>>

CloseDpStopC ==
    /\ ~dpStopC
    /\ dpStopC' = TRUE
    /\ UNCHANGED <<mpStopC, workerPc, tickReady, begun, lateRepairs>>

\* time.Sleep of deleteWorker (at Begin) and of checkFreelistWorker is over
Wake(w) ==
    /\ w # "statusUpdateScheduler"
    /\ workerPc[w] = "sleep"
    /\ workerPc' = [workerPc EXCEPT ![w] = "select"]
    /\ UNCHANGED <<mpStopC, dpStopC, tickReady, begun, lateRepairs>>

\* the select on mp.stopC at the top of the loop of deleteWorker and of
\* checkFreelistWorker
SelectStop(w) ==
    /\ w # "statusUpdateScheduler"
    /\ workerPc[w] = "select"
    /\ IF selectDefault(mpStopC) = "stopC"
       THEN workerPc' = [workerPc EXCEPT ![w] = "done"] /\ UNCHANGED begun
       ELSE /\ workerPc' = [workerPc EXCEPT ![w] = "body"]
            /\ begun' = IF mpStopC THEN Bump(w) ELSE begun
    /\ UNCHANGED <<mpStopC, dpStopC, tickReady, lateRepairs>>

\* the rest of the iteration: the leader test, the pops and, in deleteWorker,
\* deleteDataPartitionMark; deleteWorker goes on without sleeping after a
\* full batch
Body(w, full) ==
    /\ w # "statusUpdateScheduler"
    /\ workerPc[w] = "body"
    /\ workerPc' = [workerPc EXCEPT ![w] =
                       IF w = "deleteWorker" /\ full THEN "select" ELSE "sleep"]
    /\ UNCHANGED <<mpStopC, dpStopC, tickReady, begun, lateRepairs>>

\* a ticker of statusUpdateScheduler sends a tick (its channel holds one)
TickerFires(t) ==
    /\ t \notin tickReady
    /\ tickReady' = tickReady \cup {t}
    /\ UNCHANGED <<mpStopC, dpStopC, workerPc, begun, lateRepairs>>

\* the select of statusUpdateScheduler takes one of the cases that can proceed
StatusSelect ==
    /\ workerPc["statusUpdateScheduler"] = "select"
    /\ \E c \in selectReady(dpStopC, tickReady) :
          IF c = "stopC"
          THEN /\ workerPc' = [workerPc EXCEPT !["statusUpdateScheduler"] = "done"]
               /\ UNCHANGED <<tickReady, begun>>
          ELSE /\ begun["statusUpdateScheduler"] < MaxIter
               /\ workerPc' = [workerPc EXCEPT !["statusUpdateScheduler"] = c]
               /\ tickReady' = tickReady \ {c}
               /\ begun' = IF dpStopC THEN Bump("statusUpdateScheduler") ELSE begun
    /\ UNCHANGED <<mpStopC, dpStopC, lateRepairs>>

\* the case of the tick taken runs: statusUpdate and LaunchRepair, Cleanup,
\* or recomputLatency
StatusCase(unavailable, hostsOk, isLeader) ==
    /\ workerPc["statusUpdateScheduler"] \in Tickers
    /\ lateRepairs' =
          IF /\ workerPc["statusUpdateScheduler"] = "ticker"
             /\ LaunchRepair(unavailable, dpStopC, hostsOk, isLeader)
             /\ dpStopC
          THEN lateRepairs + 1 ELSE lateRepairs
    /\ workerPc' = [workerPc EXCEPT !["statusUpdateScheduler"] = "select"]
    /\ UNCHANGED <<mpStopC, dpStopC, tickReady, begun>>

notStop == <<metaVars, storeVars, pipeVars, allocVars, extentVars, tinyVars, punchVars, snapVars, mgrVars, masterVars, cursorVars, auditVars, tearVars, applyVars, createVars, lifeVars, poolVars, putVars>>

NextStop ==
    \/ CloseMpStopC /\ UNCHANGED notStop
    \/ CloseDpStopC /\ UNCHANGED notStop
    \/ \E w \in Workers : Wake(w) /\ UNCHANGED notStop
    \/ \E w \in Workers : SelectStop(w) /\ UNCHANGED notStop
    \/ \E w \in Workers, full \in BOOLEAN : Body(w, full) /\ UNCHANGED notStop
    \/ \E t \in Tickers : TickerFires(t) /\ UNCHANGED notStop
    \/ StatusSelect /\ UNCHANGED notStop
    \/ \E unavailable, hostsOk, isLeader \in BOOLEAN :
          StatusCase(unavailable, hostsOk, isLeader) /\ UNCHANGED notStop

SpecStop == Init /\ [][NextStop]_vars

MaxSnapCalls == 2      \* calls of ApplySnapshot in a run, failed ones included

\* raft installs on follower r a snapshot the leader d took, as
\* InstallSnapshot does; the outcome of the call is kept in lastSnap
ApplySnapshotCall(r, d) ==
    /\ r # d
    /\ d = raftLeader
    /\ snapCount < MaxSnap
    /\ lastSnap.n < MaxSnapCalls
    /\ \E items \in Streams(Snapshot(mp[d])) :
          LET res == ApplySnapshot(mp[r], items) IN
          /\ mp' = [mp EXCEPT ![r] = res.mp]
          /\ raftApplied' = [raftApplied EXCEPT ![r] = IF res.err = "nil" THEN raftApplied[d] ELSE @]
          /\ origin' = [origin EXCEPT ![r] = IF res.err = "nil" THEN "snap" ELSE @]
          /\ snapCount' = IF res.err = "nil" THEN snapCount + 1 ELSE snapCount
          /\ lastSnap' = [r |-> r, err |-> res.err,
                          items |-> IF res.err = "nil" THEN Len(items) ELSE Len(items) - 1,
                          n |-> lastSnap.n + 1]
    /\ UNCHANGED <<raftLog, raftLeader, storeTick, initInodeQ,
                   batchGhosts, issueGhosts>>

notMetaApply == <<storeVars, pipeVars, allocVars, extentVars, tinyVars, punchVars, snapVars, mgrVars, masterVars, cursorVars, auditVars, tearVars, stopVars, createVars, lifeVars, poolVars, putVars>>

NextApplySnap ==
    \/ \E cmd \in FsmCmds : Submit(cmd, MaxLog) /\ UNCHANGED <<applyVars, notMetaApply>>
    \/ \E r \in Replica : ApplyEntry(r) /\ UNCHANGED <<issueGhosts, applyVars, notMetaApply>>
    \/ \E r, d \in Replica : ApplySnapshotCall(r, d) /\ UNCHANGED notMetaApply
    \/ \E l \in Replica : LeaderChange(l, {TRUE}) /\ UNCHANGED <<applyVars, notMetaApply>>

SpecApplySnap == Init /\ [][NextApplySnap]_vars

\* C36: a call of ApplySnapshot that fails before the end of the stream
\* (iterator error, or a record of an unknown op) leaves the inode tree, the
\* dentry tree, the cursor and apply_id of the partition as they were
\* before the call.
C36_FailedSnapshotChangesNothing ==
    [][(lastSnap'.n # lastSnap.n /\ lastSnap'.err # "nil") =>
          LET r == lastSnap'.r IN
          /\ mp'[r].inodeTree = mp[r].inodeTree
          /\ mp'[r].dentryTree = mp[r].dentryTree
          /\ mp'[r].Cursor = mp[r].Cursor
          /\ mp'[r].applyID = mp[r].applyID]_vars

\* a call failed after the apply id and at least one record, on a replica
\* whose trees differ from those of the leader that took the snapshot
C36_Witness ==
    /\ lastSnap.err \in {"iter", "unknown op"}
    /\ lastSnap.items >= 2
    /\ mp[lastSnap.r].inodeTree # mp[raftLeader].inodeTree
    /\ mp[lastSnap.r].applyID # mp[raftLeader].applyID

\* ------------------------------------------------------------------------
\* Concurrent Create calls and the base extent id
\* ------------------------------------------------------------------------
\* the ids the concurrent callers create: normal ones and a tiny one
CreateIds == (MinExtentId + 1)..(MaxExtentId + 1) \cup {TinyExtentStartId}

\* Create up to the call of UpdateBaseExtentId: the id is new, the extent
\* file is made and entered in the cache and in extentInfoMap
CreateExtent(c, id) ==
    /\ ccPc[c] = "idle"
    /\ id \notin ccCreated
    /\ ccCreated' = ccCreated \cup {id}
    /\ ccId' = [ccId EXCEPT ![c] = id]
    /\ ccPc' = [ccPc EXCEPT ![c] = "test"]
    /\ UNCHANGED <<ccBase, ccMeta, ccBytes>>

\* if IsTinyExtent(id) { return }; if id >= atomic.LoadUint64(&s.baseExtentId)
TestBaseExtentId(c) ==
    /\ ccPc[c] = "test"
    /\ ccPc' = [ccPc EXCEPT ![c] =
                   IF IsTinyExtent(ccId[c]) THEN "idle"
                   ELSE IF ccId[c] >= ccBase THEN "store" ELSE "idle"]
    /\ UNCHANGED <<ccBase, ccMeta, ccId, ccBytes, ccCreated>>

\* atomic.StoreUint64(&s.baseExtentId, id)
StoreBaseExtentId(c) ==
    /\ ccPc[c] = "store"
    /\ ccBase' = ccId[c]
    /\ ccPc' = [ccPc EXCEPT ![c] = "encode"]
    /\ UNCHANGED <<ccMeta, ccId, ccBytes, ccCreated>>

\* binary.BigEndian.PutUint64(baseExtentIdBytes, atomic.LoadUint64(&s.baseExtentId))
EncodeBaseExtentId(c) ==
    /\ ccPc[c] = "encode"
    /\ ccBytes' = [ccBytes EXCEPT ![c] = PutUint64(ccBase)]
    /\ ccPc' = [ccPc EXCEPT ![c] = "write"]
    /\ UNCHANGED <<ccBase, ccMeta, ccId, ccCreated>>

\* s.metaFp.WriteAt(baseExtentIdBytes, ExtMetaBaseIdOffset) and Sync
WriteBaseExtentId(c) ==
    /\ ccPc[c] = "write"
    /\ ccMeta' = WriteAt(ccMeta, ccBytes[c], ExtMetaBaseIdOffset)
    /\ ccPc' = [ccPc EXCEPT ![c] = "idle"]
    /\ UNCHANGED <<ccBase, ccId, ccBytes, ccCreated>>

notCreate == <<metaVars, storeVars, pipeVars, allocVars, extentVars, tinyVars, punchVars, snapVars, mgrVars, masterVars, cursorVars, auditVars, tearVars, stopVars, applyVars, lifeVars, poolVars, putVars>>

NextCreate ==
    \/ \E c \in Creators, id \in CreateIds : CreateExtent(c, id) /\ UNCHANGED notCreate
    \/ \E c \in Creators : TestBaseExtentId(c) /\ UNCHANGED notCreate
    \/ \E c \in Creators : StoreBaseExtentId(c) /\ UNCHANGED notCreate
    \/ \E c \in Creators : EncodeBaseExtentId(c) /\ UNCHANGED notCreate
    \/ \E c \in Creators : WriteBaseExtentId(c) /\ UNCHANGED notCreate

SpecCreate == Init /\ [][NextCreate]_vars

\* the largest normal extent id created, or the base id of the new store
MaxCreated ==
    LET ids == {id \in ccCreated : ~IsTinyExtent(id)} \cup {MinExtentId}
    IN  CHOOSE m \in ids : \A x \in ids : x <= m

\* C37: when the concurrent Create calls for different normal extent ids
\* have returned, base_extent_id in memory and in META both equal the
\* largest id created; a create with a smaller id does not overwrite a
\* larger base_extent_id stored by a concurrent create.
C37_BaseIsMaxAfterConcurrentCreates ==
    (\A c \in Creators : ccPc[c] = "idle") =>
        /\ ccBase = MaxCreated
        /\ Uint64(ReadAt(ccMeta, ExtMetaBaseIdSize, ExtMetaBaseIdOffset)) = MaxCreated

\* ------------------------------------------------------------------------
\* Start and Stop of a MetaPartition
\* ------------------------------------------------------------------------
MaxLifeCalls == 5      \* calls of Start and Stop in a run

\* a Stop whose CAS also takes a partition that is starting
StopSwapsWhileStarting(state) == state \in {"StateRunning", "StateStart"}

\* atomic.CompareAndSwapUint32(&mp.state, StateStandby, StateStart)
StartSwaps(state) == state = "StateStandby"

\* atomic.CompareAndSwapUint32(&mp.state, StateRunning, StateShutdown)
StopSwaps(state) == state = "StateRunning"

\* Start: the CAS; a caller that loses it returns nil at once
StartCall(c) ==
    /\ lifePc[c] = "idle"
    /\ lifeOp.n < MaxLifeCalls
    /\ lifeOp' = [op |-> "Start", swapped |-> StartSwaps(lifeState), found |-> lifeState,
                  n |-> lifeOp.n + 1]
    /\ IF StartSwaps(lifeState)
       THEN /\ lifeState' = "StateStart"
            /\ lifePc' = [lifePc EXCEPT ![c] = "onStart"]
            /\ lifeRuns' = [lifeRuns EXCEPT !.starts = @ + 1]
       ELSE UNCHANGED <<lifeState, lifePc, lifeRuns>>
    /\ UNCHANGED lifeErr

\* mp.onStart(): load, the schedules, the free list and raft; when one of
\* them fails onStart calls onStop itself and Start returns the error
OnStart(c, ok) ==
    /\ lifePc[c] = "onStart"
    /\ lifeRuns' = [lifeRuns EXCEPT !.onStart = @ + 1]
    /\ lifeErr' = [lifeErr EXCEPT ![c] = ~ok]
    /\ lifePc' = [lifePc EXCEPT ![c] = "startDefer"]
    /\ UNCHANGED <<lifeState, lifeOp>>

\* the deferred function of Start stores the new state
StartDefer(c) ==
    /\ lifePc[c] = "startDefer"
    /\ lifeState' = IF lifeErr[c] THEN "StateStandby" ELSE "StateRunning"
    /\ lifePc' = [lifePc EXCEPT ![c] = "idle"]
    /\ UNCHANGED <<lifeErr, lifeRuns, lifeOp>>

\* Stop: the CAS; a caller that loses it returns at once
StopCall(c) ==
    /\ lifePc[c] = "idle"
    /\ lifeOp.n < MaxLifeCalls
    /\ lifeOp' = [op |-> "Stop", swapped |-> StopSwaps(lifeState), found |-> lifeState,
                  n |-> lifeOp.n + 1]
    /\ IF StopSwaps(lifeState)
       THEN /\ lifeState' = "StateShutdown"
            /\ lifePc' = [lifePc EXCEPT ![c] = "stopHooks"]
            /\ lifeRuns' = [lifeRuns EXCEPT !.stops = @ + 1]
       ELSE UNCHANGED <<lifeState, lifePc, lifeRuns>>
    /\ UNCHANGED lifeErr

\* BeforeStop, onStop and AfterStop of the configuration
StopHooks(c) ==
    /\ lifePc[c] = "stopHooks"
    /\ lifeRuns' = [lifeRuns EXCEPT !.beforeStop = @ + 1, !.onStop = @ + 1, !.afterStop = @ + 1]
    /\ lifePc' = [lifePc EXCEPT ![c] = "stopDefer"]
    /\ UNCHANGED <<lifeState, lifeErr, lifeOp>>

\* defer atomic.StoreUint32(&mp.state, StateStopped)
StopDefer(c) ==
    /\ lifePc[c] = "stopDefer"
    /\ lifeState' = "StateStopped"
    /\ lifePc' = [lifePc EXCEPT ![c] = "idle"]
    /\ UNCHANGED <<lifeErr, lifeRuns, lifeOp>>

notLife == <<metaVars, storeVars, pipeVars, allocVars, extentVars, tinyVars, punchVars, snapVars, mgrVars, masterVars, cursorVars, auditVars, tearVars, stopVars, applyVars, createVars, poolVars, putVars>>

NextLife ==
    \/ \E c \in LifeCallers : StartCall(c) /\ UNCHANGED notLife
    \/ \E c \in LifeCallers, ok \in BOOLEAN : OnStart(c, ok) /\ UNCHANGED notLife
    \/ \E c \in LifeCallers : StartDefer(c) /\ UNCHANGED notLife
    \/ \E c \in LifeCallers : StopCall(c) /\ UNCHANGED notLife
    \/ \E c \in LifeCallers : StopHooks(c) /\ UNCHANGED notLife
    \/ \E c \in LifeCallers : StopDefer(c) /\ UNCHANGED notLife

SpecLife == Init /\ [][NextLife]_vars

\* the transitions of the lifecycle
LifeTransitions ==
    {<<"StateStandby", "StateStart">>, <<"StateStart", "StateRunning">>,
     <<"StateStart", "StateStandby">>, <<"StateRunning", "StateShutdown">>,
     <<"StateShutdown", "StateStopped">>}

\* the callers that are inside onStart, and inside the stop hooks
Starting == {c \in LifeCallers : lifePc[c] \in {"onStart", "startDefer"}}
Stopping == {c \in LifeCallers : lifePc[c] \in {"stopHooks", "stopDefer"}}

MaxPools == 3      \* Pools made in a run
mincap == 5        \* connections NewPool dials

\* cp.RLock(); pool, ok := cp.pools[targetAddr]; cp.RUnlock()
GetLookup(c, t) ==
    /\ cpPc[c] = "idle"
    /\ cpAddr' = [cpAddr EXCEPT ![c] = t]
    /\ cpPool' = [cpPool EXCEPT ![c] = cpPools[t]]
    /\ cpPc' = [cpPc EXCEPT ![c] = IF cpPools[t] # 0 THEN "poolGet" ELSE "install"]
    /\ UNCHANGED <<cpPools, poolIdle, poolTarget>>

\* cp.Lock(); pool = NewPool(...); cp.pools[targetAddr] = pool; cp.Unlock():
\* NewPool dials mincap connections and keeps those that were made
GetInstall(c, dialed) ==
    /\ cpPc[c] = "install"
    /\ Len(poolIdle) < MaxPools
    /\ poolIdle' = Append(poolIdle, dialed)
    /\ poolTarget' = Append(poolTarget, cpAddr[c])
    /\ cpPools' = [cpPools EXCEPT ![cpAddr[c]] = Len(poolIdle) + 1]
    /\ cpPool' = [cpPool EXCEPT ![c] = Len(poolIdle) + 1]
    /\ cpPc' = [cpPc EXCEPT ![c] = "poolGet"]
    /\ UNCHANGED cpAddr

\* pool.Get(): an idle connection of the pool, or a new one
PoolGet(c) ==
    /\ cpPc[c] = "poolGet"
    /\ poolIdle' = [poolIdle EXCEPT ![cpPool[c]] = IF @ > 0 THEN @ - 1 ELSE 0]
    /\ cpPc' = [cpPc EXCEPT ![c] = "idle"]
    /\ UNCHANGED <<cpPools, poolTarget, cpAddr, cpPool>>

notPool == <<metaVars, storeVars, pipeVars, allocVars, extentVars, tinyVars, punchVars, snapVars, mgrVars, masterVars, cursorVars, auditVars, tearVars, stopVars, applyVars, createVars, lifeVars, putVars>>

NextPool ==
    \/ \E c \in Getters, t \in Targets : GetLookup(c, t) /\ UNCHANGED notPool
    \/ \E c \in Getters, dialed \in {0, 1, mincap} : GetInstall(c, dialed) /\ UNCHANGED notPool
    \/ \E c \in Getters : PoolGet(c) /\ UNCHANGED notPool

SpecPool == Init /\ [][NextPool]_vars

\* the Pools ever installed for target t
Installed(t) == {p \in DOMAIN poolTarget : poolTarget[p] = t}

\* C39: for each target at most one Pool is ever installed in the map, also
\* when several callers call Get for an unknown target concurrently; no Pool
\* that holds idle connections is replaced in the map and left unreachable.
C39_OnePoolPerTarget ==
    /\ \A t \in Targets : Cardinality(Installed(t)) <= 1
    /\ \A p \in DOMAIN poolIdle :
          (poolIdle[p] > 0 /\ \A c \in Getters : cpPc[c] = "poolGet" => cpPool[c] # p)
              => cpPools[poolTarget[p]] = p

\* ------------------------------------------------------------------------
\* Sends on the tiny channels by the writers, the repair and the teardown
\* ------------------------------------------------------------------------
MaxPuts == 6       \* sends on the tiny channels in a run

\* channels with room for one id less than there are tiny extents
sendBlocksOneShort(ch, ids) == Len(ch) + Len(ids) > MaxTiny - 1

\* s.unavaliTinyExtentCh <- extentId for each of ids, on a channel made with
\* room for every tiny extent: whether the sender finds the channel full
sendBlocks(ch, ids) == Len(ch) + Len(ids) > MaxTiny

PutOf(op, ch, ids, blocked) ==
    [op |-> op, ch |-> ch, ids |-> ids, blocked |-> blocked, n |-> putOp.n + 1]

\* ClearReqs holds listMux while it waits for room in the channel
ListLocked == putOp.op = "ClearReqs" /\ putOp.blocked

\* a write on a tiny extent claims an available one
ClaimTiny ==
    /\ ~ListLocked
    /\ PushTinyWrite
    /\ UNCHANGED putOp

\* the repair takes an unavailable tiny extent and puts it on the available
\* channel
RepairPut ==
    /\ putOp.n < MaxPuts
    /\ unavaliTinyExtentCh # <<>>
    /\ LET id == Head(unavaliTinyExtentCh)
           blocked == sendBlocks(avaliTinyExtentCh, <<id>>)
       IN  /\ unavaliTinyExtentCh' = Tail(unavaliTinyExtentCh)
           /\ avaliTinyExtentCh' = IF blocked THEN avaliTinyExtentCh
                                   ELSE Append(avaliTinyExtentCh, id)
           /\ putOp' = PutOf("PutTinyExtentToAvaliCh", "avali", <<id>>, blocked)
           /\ tinyOp' = [op |-> "PutTinyExtentToAvaliCh", ids |-> <<id>>, err |-> "nil"]
    /\ UNCHANGED <<pipeVars, tearVars>>

\* a reply of the follower to the front request; the writer of a tiny
\* request that was acknowledged releases its extent to one of the channels
AckRelease(reply, toAvali) ==
    /\ ~ListLocked
    /\ putOp.n < MaxPuts
    /\ sentList # <<>>
    /\ DelElement(reply)
    /\ connOpen' = IF replyDiffers(reply, Head(sentList).pkt)
                   THEN connOpen \ {Head(sentList).conn} ELSE connOpen
    /\ LET id == Head(sentList).pkt.FileID
           ch == IF toAvali THEN avaliTinyExtentCh ELSE unavaliTinyExtentCh
           blocked == sendBlocks(ch, <<id>>)
       IN  IF IsTinyExtent(id) /\ ~replyDiffers(reply, Head(sentList).pkt)
           THEN /\ avaliTinyExtentCh' = IF toAvali /\ ~blocked
                                        THEN Append(avaliTinyExtentCh, id)
                                        ELSE avaliTinyExtentCh
                /\ unavaliTinyExtentCh' = IF ~toAvali /\ ~blocked
                                          THEN Append(unavaliTinyExtentCh, id)
                                          ELSE unavaliTinyExtentCh
                /\ putOp' = PutOf(IF toAvali THEN "PutTinyExtentToAvaliCh"
                                  ELSE "PutTinyExtentToUnavaliCh",
                                  IF toAvali THEN "avali" ELSE "unavali", <<id>>, blocked)
                /\ UNCHANGED tinyOp
           ELSE UNCHANGED <<tinyVars, putOp>>
    /\ UNCHANGED <<connectMap, connSeq, destroyed>>

\* ClearReqs: the tiny extents of the requests in sentList are sent to the
\* unavailable channel under listMux; with no room for them the teardown
\* waits and keeps the lock
TeardownPut ==
    /\ ~ListLocked
    /\ putOp.n < MaxPuts
    /\ LET ids == leaderPutTinyExtents(<<>>, sentList) IN
       IF sendBlocks(unavaliTinyExtentCh, ids)
       THEN /\ putOp' = PutOf("ClearReqs", "unavali", ids, TRUE)
            /\ UNCHANGED <<pipeVars, tearVars, tinyVars>>
       ELSE /\ putOp' = PutOf("ClearReqs", "unavali", ids, FALSE)
            /\ Teardown

notPut == <<metaVars, storeVars, allocVars, extentVars, punchVars, snapVars, mgrVars, masterVars, cursorVars, auditVars, stopVars, applyVars, createVars, lifeVars, poolVars>>

PutReplies ==
    {PacketOf(req, 0, fid, 0, 0, 0) : req \in 1..MaxReq, fid \in TinyIds \cup {MinExtentId}}

NextPut ==
    \/ ClaimTiny /\ UNCHANGED notPut
    \/ RepairPut /\ UNCHANGED notPut
    \/ \E reply \in PutReplies, toAvali \in BOOLEAN : AckRelease(reply, toAvali) /\ UNCHANGED notPut
    \/ TakeReply /\ UNCHANGED <<tearVars, tinyVars, putVars, notPut>>
    \/ TeardownPut /\ UNCHANGED notPut

SpecPut == Init /\ [][NextPut]_vars

====
